---- MODULE Spec2Model ----
(***************************************************************************)
(* A model of the two subsystems of the ai-grid backend:                   *)
(*   - the concurrent query execution engine                               *)
(*       backend/src/app/services/query_service.py                         *)
(*       backend/src/app/api/v1/endpoints/query.py                         *)
(*   - the adaptive PDF extraction pipeline                                *)
(*       backend/src/app/services/document_service.py                      *)
(*       backend/src/app/services/loaders/*.py                             *)
(***************************************************************************)
EXTENDS Integers, Sequences, FiniteSets, TLC

(***************************************************************************)
(* Program constants.                                                      *)
(***************************************************************************)
\* query_service.py:28
MAX_CONCURRENT_QUERIES == 5
\* query_service.py:32 (the default of process_query_with_retry's `retries`)
MAX_RETRIES == 2
\* query_service.py:33, in seconds
RETRY_DELAY == 1

(***************************************************************************)
(* Bounds of the model.                                                    *)
(***************************************************************************)
\* number of requests submitted to one run_batch_queries call
BatchLen == 2
\* number of run_query calls that may be in progress beside the batch
NumCallers == 5

None == [none |-> TRUE]

Formats == {"int", "bool", "int_array", "str_array", "str"}

\* query.py:68, query.py:233: the reserved "no document" id
SENTINEL == "00000000000000000000000000000000"

(***************************************************************************)
(* Requests.  `rules` is TRUE when the prompt carries a non-empty rule     *)
(* list, `tag` when the query text contains one of the tag keywords of     *)
(* inference_query.  The prompt id is filled in per position.              *)
(***************************************************************************)
RequestShapes ==
  { [document_id |-> "doc",    type |-> "int",       rules |-> FALSE, tag |-> FALSE],
    [document_id |-> "doc",    type |-> "str",       rules |-> FALSE, tag |-> FALSE],
    [document_id |-> "doc",    type |-> "str_array", rules |-> TRUE,  tag |-> FALSE],
    [document_id |-> "doc",    type |-> "int_array", rules |-> TRUE,  tag |-> FALSE],
    [document_id |-> "doc",    type |-> "bool",      rules |-> FALSE, tag |-> FALSE],
    [document_id |-> SENTINEL, type |-> "int_array", rules |-> FALSE, tag |-> FALSE] }

QueryRequestSchema(shape, id) ==
  [document_id |-> shape.document_id,
   prompt |-> [id |-> id, type |-> shape.type, rules |-> shape.rules, tag |-> shape.tag]]

VARIABLES
  requests,          \* run_batch_queries: the `requests` argument
  QUERY_SEMAPHORE,   \* value of the module-level asyncio.Semaphore
  batch_pc,          \* position of the run_batch_queries handler
  results,           \* run_batch_queries: the pre-allocated `results` list
  coro,              \* per request: its inference_query / process_query_with_retry coroutine
  pq_i,              \* process_queries_in_parallel: start index i of the gathered group
  pq_results,        \* process_queries_in_parallel: the `results` list built so far
  callers            \* run_query calls in progress: position -> how many are there

qvars == <<requests, QUERY_SEMAPHORE, batch_pc, results, coro, pq_i, pq_results, callers>>

VARIABLES
  settings_loader,        \* DocumentService.settings.loader, shared by all uploads
  UNSTRUCTURED_AVAILABLE, \* loaders/factory.py:17-26: set once, at import
  uploads,                \* per upload_document call: its position and locals
  probe,                  \* the file handed to one _detect_pdf_type call
  detected                \* what that call returned or raised

evars == <<settings_loader, UNSTRUCTURED_AVAILABLE, uploads, probe, detected>>

VARIABLES
  now,               \* time.time()
  PDF_CACHE,         \* pypdf_service.py:37, in dict order: key, timestamp, documents
  TEXTRACT_CACHE,    \* textract_service.py:24, in dict order: key, timestamp, documents
  _document_cache,   \* gpt4o_pdf_service.py:21, in dict order: key, documents
  loads,             \* the load() calls on the loaders that keep a cache
  last_put           \* the last _update_cache call: PDF_CACHE before it, and its key

cvars == <<now, PDF_CACHE, TEXTRACT_CACHE, _document_cache, loads, last_put>>

VARIABLES
  client,            \* OpenAICompletionService.client is set (an API key is configured)
  active_tasks,      \* OpenAICompletionService.active_tasks: task id -> task
  _next_task_id,     \* OpenAICompletionService._next_task_id
  calls,             \* the generate_completion calls
  last_cancel        \* the last cancel_task call: what it found and returned

tvars == <<client, active_tasks, _next_task_id, calls, last_cancel>>

VARIABLES
  evaluated          \* the last call of a function of the answer path: its arguments and what it returned

avars == <<evaluated>>

VARIABLES
  chunking           \* the split of one _process_document call: its units, its batch tasks and what it returned

pvars == <<chunking>>

svars == <<cvars, tvars, avars, pvars>>

Indices == DOMAIN requests

(***************************************************************************)
(* Pure helpers of the endpoint and the service.                           *)
(***************************************************************************)
\* query.py:232-240: the three categories of run_batch_queries
Category(req) ==
  IF req.document_id = SENTINEL THEN "inference"
  ELSE IF ~req.prompt.rules /\ req.prompt.type # "bool" THEN "simple_vector"
  ELSE "hybrid"

\* the positions of `reqs` whose category is `cat`, in submission order
RECURSIVE Select(_, _, _)
Select(reqs, cat, i) ==
  IF i > Len(reqs) THEN <<>>
  ELSE IF Category(reqs[i]) = cat THEN <<i>> \o Select(reqs, cat, i + 1)
  ELSE Select(reqs, cat, i + 1)

inference_requests     == Select(requests, "inference", 1)
simple_vector_requests == Select(requests, "simple_vector", 1)
complex_vector_requests == Select(requests, "hybrid", 1)

\* a bug: one fallback for every declared type
RetryFallback_Untyped(format) == "''"

\* query_service.py:165-174, 333-342: the fallback of the retry path
RetryFallback(format) ==
  IF format = "int" THEN "0"
  ELSE IF format = "bool" THEN "False"
  ELSE IF format = "int_array" THEN "[]"
  ELSE IF format = "str_array" THEN "[]"
  ELSE "''"

\* query_service.py:527-548: the fallback of inference_query
InferenceFallback(format, is_tag_query) ==
  IF format = "int" THEN "0"
  ELSE IF format = "bool" THEN "False"
  ELSE IF format = "int_array" THEN (IF is_tag_query THEN "[]" ELSE "[0]")
  ELSE IF format = "str_array" THEN "[]"
  ELSE "''"

\* query.py:386-412
create_fallback_response(req) ==
  [document_id |-> req.document_id,
   prompt_id   |-> req.prompt.id,
   type        |-> req.prompt.type,
   answer      |-> [src |-> "fallback",
                    value |-> IF req.prompt.type = "int" THEN "0"
                              ELSE IF req.prompt.type = "bool" THEN "False"
                              ELSE IF req.prompt.type \in {"int_array", "str_array"} THEN "[]"
                              ELSE "''"],
   chunks      |-> <<>>]

(***************************************************************************)
(* Query results.  The answer an upstream generation returns is named by    *)
(* the prompt it answers and the attempt that obtained it; `valid` is FALSE *)
(* for a value outside QueryAnswer's Union[int, str, bool, List[int],       *)
(* List[str]] (a dict, a float, a mixed list), for which constructing the   *)
(* QueryAnswer raises a validation error.                                   *)
(***************************************************************************)
UpstreamAnswer(id, attempt, valid) ==
  [src |-> "llm", of |-> id, attempt |-> attempt, valid |-> valid]

\* schemas/query_api.py:45-50
QueryResult(answer, chunks) == [answer |-> answer, chunks |-> chunks]

CancelledError == [exc |-> "CancelledError"]

IsQueryResult(r) == "answer" \in DOMAIN r

\* query_service.py:176-180 and 344-348
FallbackResult(format) ==
  QueryResult([src |-> "fallback", value |-> RetryFallback(format)], <<>>)

\* a bug: the result of a successful retry is dropped for the fallback
ReturnedFromAttempt_Fallback(result, req) == FallbackResult(req.prompt.type)

\* query_service.py:136-148: what process_query_with_retry returns when
\* process_query returned `result` to one of its attempts
ReturnedFromAttempt(result, req) == result

\* query_service.py:550-553
InferenceFallbackResult(req) ==
  QueryResult([src |-> "fallback",
               value |-> InferenceFallback(req.prompt.type, req.prompt.tag)], <<>>)

\* query.py:371-377: QueryAnswer(...) raises for an answer outside its Union
QueryAnswerRaises(result) == result.answer.src = "llm" /\ ~result.answer.valid

\* query.py:357-384; a result that is no QueryResult and no Exception (the
\* CancelledError gather hands back) fails QueryResult(**result): fallback
create_response_from_result(req, result) ==
  IF ~IsQueryResult(result) THEN create_fallback_response(req)
  ELSE [document_id |-> req.document_id,
        prompt_id   |-> req.prompt.id,
        type        |-> req.prompt.type,
        answer      |-> result.answer,
        chunks      |-> result.chunks]

\* whether create_response_from_result(req, result) raises
ResponseRaises(result) == IsQueryResult(result) /\ QueryAnswerRaises(result)

(***************************************************************************)
(* Coroutines of the batch.  pc: "created" (not awaited yet), "acquire"    *)
(* (at `async with QUERY_SEMAPHORE`), "run" (inside the limiter, awaiting  *)
(* the search/generation), "sleep" (backoff), "done".                      *)
(* attempt: the loop variable of process_query_with_retry; raises: how many *)
(* attempts have raised; got: what process_query returned to the last      *)
(* attempt; outcome: what the coroutine returned (or the CancelledError it *)
(* ended with); slept: the delays of the backoff sleeps it has started, in *)
(* milliseconds.                                                           *)
Coro(pc, attempt, raises, got, outcome, slept) ==
  [pc |-> pc, attempt |-> attempt, raises |-> raises, got |-> got, outcome |-> outcome,
   slept |-> slept]

NewCoro(pc) == Coro(pc, 0, 0, None, None, <<>>)

\* a bug: the same delay before every attempt
jitter_Flat(attempt) == 1000 * RETRY_DELAY

\* query_service.py:156: jitter = RETRY_DELAY * (0.5 + 0.5 * (attempt + 1)),
\* in milliseconds
jitter(attempt) == (1000 * RETRY_DELAY * (5 + 5 * (attempt + 1))) \div 10

\* a bug: the slot is the rank in processing order (inference, then simple
\* vector, then hybrid) instead of the original index
request_to_index_ProcessingOrder(i) ==
  LET order == inference_requests \o simple_vector_requests \o complex_vector_requests
  IN CHOOSE k \in 1..Len(order) : order[k] = i

\* query.py:248: request_to_index[id(req)]; list elements are distinct
\* objects, so id() names the position
request_to_index(i) == i

\* query.py:284-285, 301-302: results[idx] = <response>
Store(res, i, response) == [res EXCEPT ![request_to_index(i)] = response]

\* query_service.py:317-319: the coroutines gathered together, from index i
Group(params, i) ==
  { params[k] : k \in { k \in 1..Len(params) : i < k /\ k <= i + MAX_CONCURRENT_QUERIES } }

\* a bug: the hybrid requests are gathered together with the simple ones
Params_Together(phase) ==
  IF phase = "simple" THEN simple_vector_requests \o complex_vector_requests
  ELSE complex_vector_requests

\* query.py:267-277, 312-322: simple_vector_params and complex_params
Params(phase) == IF phase = "simple" THEN simple_vector_requests ELSE complex_vector_requests

\* query.py:342-350: fill the remaining None slots and return
Finish(res, co) ==
  [pc |-> "returned",
   results |-> [i \in Indices |-> IF res[i] = None THEN create_fallback_response(requests[i])
                                  ELSE res[i]],
   coro |-> co, pq_i |-> 0, pq_results |-> <<>>]

\* query_service.py:300-323: create the coroutines, gather the first group
StartGather(phase, res, co) ==
  [pc |-> phase,
   results |-> res,
   coro |-> [i \in Indices |-> IF i \in Group(Params(phase), 0)
                               THEN NewCoro("acquire") ELSE co[i]],
   pq_i |-> 0, pq_results |-> <<>>]

\* query.py:311-340
AfterSimple(res, co) ==
  IF complex_vector_requests # <<>> THEN StartGather("complex", res, co)
  ELSE Finish(res, co)

\* query.py:291-309
AfterInference(res, co) ==
  IF simple_vector_requests # <<>> THEN StartGather("simple", res, co)
  ELSE AfterSimple(res, co)

\* query.py:279-289: await the next inference coroutine, if any
NextInference(res, co) ==
  IF \E i \in Indices : Category(requests[i]) = "inference" /\ co[i].pc = "created"
  THEN LET n == CHOOSE i \in Indices :
                  /\ Category(requests[i]) = "inference" /\ co[i].pc = "created"
                  /\ \A j \in Indices :
                       (Category(requests[j]) = "inference" /\ co[j].pc = "created") => i <= j
       IN [pc |-> "inference", results |-> res,
           coro |-> [co EXCEPT ![n] = NewCoro("acquire")],
           pq_i |-> 0, pq_results |-> <<>>]
  ELSE AfterInference(res, co)

Become(h) ==
  /\ batch_pc' = h.pc
  /\ results' = h.results
  /\ coro' = h.coro
  /\ pq_i' = h.pq_i
  /\ pq_results' = h.pq_results

(***************************************************************************)
(* run_query calls running beside the batch.  They are interchangeable, so *)
(* `callers` counts the calls at each position instead of naming them.     *)
(***************************************************************************)
CallerPositions ==
  { [kind |-> "inference", pc |-> pc, attempt |-> 0] : pc \in {"acquire", "run"} }
    \cup
  { [kind |-> "retry", pc |-> pc, attempt |-> a] : pc \in {"acquire", "run"}, a \in 0..MAX_RETRIES }
    \cup
  { [kind |-> "retry", pc |-> "sleep", attempt |-> a] : a \in 0..(MAX_RETRIES - 1) }

RECURSIVE Total(_, _)
Total(f, S) == IF S = {} THEN 0
               ELSE LET x == CHOOSE x \in S : TRUE IN f[x] + Total(f, S \ {x})

NumberOfCallers == Total(callers, CallerPositions)

Leave(p)   == [callers EXCEPT ![p] = @ - 1]
Move(p, q) == [callers EXCEPT ![p] = @ - 1, ![q] = @ + 1]

(***************************************************************************)
(* The limiter: `async with QUERY_SEMAPHORE` (query_service.py:132, 428).  *)
(***************************************************************************)
\* a bug: the body runs without waiting for a permit
SemaphoreFree_NoLimit == TRUE
\* a bug: an exit path that does not give its permit back
SemaphoreReleased_Leaked == QUERY_SEMAPHORE
\* a bug: entering the limiter takes two permits, leaving it gives one back
SemaphoreAcquired_Twice == QUERY_SEMAPHORE - 2

SemaphoreFree == QUERY_SEMAPHORE > 0
SemaphoreAcquired == QUERY_SEMAPHORE - 1
SemaphoreReleased == QUERY_SEMAPHORE + 1

(***************************************************************************)
(* Initial states.                                                         *)
(***************************************************************************)
QueryInit(reqs) ==
  /\ requests = reqs
  /\ QUERY_SEMAPHORE = MAX_CONCURRENT_QUERIES
  /\ batch_pc = "idle"
  /\ results = <<>>
  /\ coro = [i \in DOMAIN reqs |-> NewCoro("created")]
  /\ pq_i = 0
  /\ pq_results = <<>>
  /\ callers = [p \in CallerPositions |-> 0]

(***************************************************************************)
(* run_batch_queries (query.py:183-355).                                   *)
(***************************************************************************)
\* query.py:222-289: categorise, pre-allocate, create the inference
\* coroutines and await the first one
run_batch_queries ==
  /\ batch_pc = "idle"
  /\ Become(NextInference([i \in Indices |-> None], coro))
  /\ UNCHANGED <<requests, QUERY_SEMAPHORE, callers>>
  /\ UNCHANGED <<evars, svars>>

\* `async with QUERY_SEMAPHORE` entered by the coroutine of request i
Acquire(i) ==
  /\ batch_pc \in {"inference", "simple", "complex"}
  /\ coro[i].pc = "acquire"
  /\ SemaphoreFree
  /\ QUERY_SEMAPHORE' = SemaphoreAcquired
  /\ coro' = [coro EXCEPT ![i].pc = "run"]
  /\ UNCHANGED <<requests, batch_pc, results, pq_i, pq_results, callers>>
  /\ UNCHANGED <<evars, svars>>

\* query_service.py:426-553 and query.py:281-289: the awaited inference_query
\* ends.  how = "returns": generate_inferred_response answered;
\* "raises": it raised, inference_query returns its fallback.
InferenceEnds(i, how, valid) ==
  /\ batch_pc = "inference"
  /\ coro[i].pc = "run"
  /\ QUERY_SEMAPHORE' = SemaphoreReleased
  /\ LET req == requests[i]
         result == IF how = "returns"
                   THEN QueryResult(UpstreamAnswer(req.prompt.id, 0, valid), <<>>)
                   ELSE InferenceFallbackResult(req)
         response == IF ResponseRaises(result) THEN create_fallback_response(req)
                     ELSE create_response_from_result(req, result)
     IN Become(NextInference(Store(results, i, response),
                             [coro EXCEPT ![i] = Coro("done", 0, 0, None, result, <<>>)]))
  /\ UNCHANGED <<requests, callers>>
  /\ UNCHANGED <<evars, svars>>

\* The model call of the awaited inference_query is cancelled: CancelledError
\* is no Exception, so it passes every `except Exception` of inference_query
\* and run_batch_queries and ends the handler.
InferenceCancelled(i) ==
  /\ batch_pc = "inference"
  /\ coro[i].pc = "run"
  /\ QUERY_SEMAPHORE' = SemaphoreReleased
  /\ coro' = [coro EXCEPT ![i] = Coro("done", 0, 0, None, CancelledError, <<>>)]
  /\ batch_pc' = "cancelled"
  /\ UNCHANGED <<requests, results, pq_i, pq_results, callers>>
  /\ UNCHANGED <<evars, svars>>

(***************************************************************************)
(* process_query_with_retry (query_service.py:116-180), run by gather.     *)
(***************************************************************************)
\* query_service.py:136-148: process_query returns, the result is returned
AttemptReturns(i, valid) ==
  /\ batch_pc \in {"simple", "complex"}
  /\ coro[i].pc = "run"
  /\ QUERY_SEMAPHORE' = SemaphoreReleased
  /\ LET result == QueryResult(UpstreamAnswer(requests[i].prompt.id, coro[i].attempt, valid), <<>>)
     IN coro' = [coro EXCEPT ![i] =
                   Coro("done", @.attempt, @.raises, result, ReturnedFromAttempt(result, requests[i]), @.slept)]
  /\ UNCHANGED <<requests, batch_pc, results, pq_i, pq_results, callers>>
  /\ UNCHANGED <<evars, svars>>

\* query_service.py:150-180: process_query raises (a timeout included)
AttemptRaises(i) ==
  /\ batch_pc \in {"simple", "complex"}
  /\ coro[i].pc = "run"
  /\ QUERY_SEMAPHORE' = SemaphoreReleased
  /\ coro' = [coro EXCEPT ![i] =
        IF @.attempt < MAX_RETRIES
        THEN Coro("sleep", @.attempt, @.raises + 1, None, None, Append(@.slept, jitter(@.attempt)))
        ELSE Coro("done", @.attempt, @.raises + 1, None, FallbackResult(requests[i].prompt.type),
                  @.slept)]
  /\ UNCHANGED <<requests, batch_pc, results, pq_i, pq_results, callers>>
  /\ UNCHANGED <<evars, svars>>

\* query_service.py:157: the backoff sleep ends, the loop starts the next attempt
BackoffElapsed(i) ==
  /\ batch_pc \in {"simple", "complex"}
  /\ coro[i].pc = "sleep"
  /\ coro' = [coro EXCEPT ![i] = Coro("acquire", @.attempt + 1, @.raises, None, None, @.slept)]
  /\ UNCHANGED <<requests, QUERY_SEMAPHORE, batch_pc, results, pq_i, pq_results, callers>>
  /\ UNCHANGED <<evars, svars>>

\* a bug: the CancelledError of one child cancels the children still pending
\* in the gathered group (gather without return_exceptions under a cancelled
\* parent); their permits are never given back
Cancelled_Group(cs, i) ==
  [j \in DOMAIN cs |->
     IF j = i \/ (j \in Group(Params(batch_pc), pq_i) /\ cs[j].pc # "done")
     THEN Coro("done", cs[j].attempt, cs[j].raises, None, CancelledError, cs[j].slept)
     ELSE cs[j]]

\* query_service.py:323: gather(*batch, return_exceptions=True) keeps the
\* CancelledError of child i as its result and leaves the other children alone
Cancelled(cs, i) ==
  [cs EXCEPT ![i] = Coro("done", @.attempt, @.raises, None, CancelledError, @.slept)]

\* the model call of the attempt is cancelled: CancelledError leaves the
\* `async with` and passes `except Exception`; gather keeps it as the result
AttemptCancelled(i) ==
  /\ batch_pc \in {"simple", "complex"}
  /\ coro[i].pc = "run"
  /\ QUERY_SEMAPHORE' = SemaphoreReleased
  /\ coro' = Cancelled(coro, i)
  /\ UNCHANGED <<requests, batch_pc, results, pq_i, pq_results, callers>>
  /\ UNCHANGED <<evars, svars>>

\* query_service.py:326-350: what process_queries_in_parallel appends for one
\* gathered result (a CancelledError is no Exception and is appended as it is)
Gathered(i) == coro[i].outcome

\* query.py:299-302, 330-333: results[idx] = create_response_from_result(req, result)
RECURSIVE MapResults(_, _, _, _)
MapResults(params, all, res, k) ==
  IF k > Len(params) THEN res
  ELSE MapResults(params, all,
                  Store(res, params[k], create_response_from_result(requests[params[k]], all[k])),
                  k + 1)

\* query.py:306-309, 337-340: results[idx] = create_fallback_response(req)
RECURSIVE MapFallbacks(_, _, _)
MapFallbacks(params, res, k) ==
  IF k > Len(params) THEN res
  ELSE MapFallbacks(params, Store(res, params[k], create_fallback_response(requests[params[k]])),
                    k + 1)

\* query.py:293-309 and 324-340: map the results back; one response that
\* cannot be built sends the handler to the except branch, which overwrites
\* the slot of every request of the params with its fallback
MapBack(phase, res, all) ==
  LET params == Params(phase)
  IN IF \E k \in 1..Len(params) : ResponseRaises(all[k])
     THEN MapFallbacks(params, res, 1)
     ELSE MapResults(params, all, res, 1)

\* query_service.py:323-352 and query.py:294-340: the gathered group has
\* finished; gather the next group, or return and map the results back
GatherDone ==
  /\ batch_pc \in {"simple", "complex"}
  /\ LET params == Params(batch_pc)
         group == Group(params, pq_i)
         all == pq_results \o
                  [k \in 1..Cardinality(group) |-> Gathered(params[pq_i + k])]
     IN /\ \A i \in group : coro[i].pc = "done"
        /\ IF pq_i + MAX_CONCURRENT_QUERIES < Len(params)
           THEN /\ pq_i' = pq_i + MAX_CONCURRENT_QUERIES
                /\ pq_results' = all
                /\ coro' = [i \in Indices |->
                              IF i \in Group(params, pq_i + MAX_CONCURRENT_QUERIES)
                              THEN NewCoro("acquire") ELSE coro[i]]
                /\ UNCHANGED <<batch_pc, results>>
           ELSE Become(IF batch_pc = "simple"
                       THEN AfterSimple(MapBack("simple", results, all), coro)
                       ELSE Finish(MapBack("complex", results, all), coro))
  /\ UNCHANGED <<requests, QUERY_SEMAPHORE, callers>>
  /\ UNCHANGED <<evars, svars>>

(***************************************************************************)
(* run_query (query.py:37-179): the calls beside the batch.                *)
(***************************************************************************)
\* query.py:68-75, 121-140: dispatch to inference_query or, through
\* hybrid_query / simple_vector_query, to process_query_with_retry
run_query(kind) ==
  /\ NumberOfCallers < NumCallers
  /\ callers' = [callers EXCEPT ![[kind |-> kind, pc |-> "acquire", attempt |-> 0]] = @ + 1]
  /\ UNCHANGED <<requests, QUERY_SEMAPHORE, batch_pc, results, coro, pq_i, pq_results>>
  /\ UNCHANGED <<evars, svars>>

CallerAcquire(p) ==
  /\ p.pc = "acquire" /\ callers[p] > 0
  /\ SemaphoreFree
  /\ QUERY_SEMAPHORE' = SemaphoreAcquired
  /\ callers' = Move(p, [p EXCEPT !.pc = "run"])
  /\ UNCHANGED <<requests, batch_pc, results, coro, pq_i, pq_results>>
  /\ UNCHANGED <<evars, svars>>

\* the call leaves the limiter and answers its client: the upstream call
\* returned, or it raised in inference_query (fallback), or it was cancelled
CallerEnds(p) ==
  /\ p.pc = "run" /\ callers[p] > 0
  /\ QUERY_SEMAPHORE' = SemaphoreReleased
  /\ callers' = Leave(p)
  /\ UNCHANGED <<requests, batch_pc, results, coro, pq_i, pq_results>>
  /\ UNCHANGED <<evars, svars>>

\* query_service.py:150-180 for a run_query call
CallerAttemptRaises(p) ==
  /\ p.kind = "retry" /\ p.pc = "run" /\ callers[p] > 0
  /\ QUERY_SEMAPHORE' = SemaphoreReleased
  /\ callers' = IF p.attempt < MAX_RETRIES
                THEN Move(p, [p EXCEPT !.pc = "sleep"])
                ELSE Leave(p)
  /\ UNCHANGED <<requests, batch_pc, results, coro, pq_i, pq_results>>
  /\ UNCHANGED <<evars, svars>>

CallerBackoffElapsed(p) ==
  /\ p.pc = "sleep" /\ callers[p] > 0
  /\ callers' = Move(p, [p EXCEPT !.pc = "acquire", !.attempt = @ + 1])
  /\ UNCHANGED <<requests, QUERY_SEMAPHORE, batch_pc, results, coro, pq_i, pq_results>>
  /\ UNCHANGED <<evars, svars>>

(***************************************************************************)
(* The PDF extraction pipeline.                                            *)
(*                                                                         *)
(* A file is described by what the code looks at: its extension, whether   *)
(* the path exists, whether it can be opened and parsed, its size in       *)
(* bytes, its pages (per page the length of the stripped text and the      *)
(* number of images) and the markers found in its first 5120 bytes.        *)
(***************************************************************************)
\* document_service.py:218, pypdf_service.py:147: 10_000_000 bytes
LARGE_FILE_SIZE == 10000000
\* document_service.py:244, pypdf_service.py:179: len(text.strip()) > 100
SIGNIFICANT_TEXT == 100
\* document_service.py:230, pypdf_service.py:165: min(5, len(doc))
MAX_ANALYZED_PAGES == 5

\* longest page list of a probed file
MaxPages == 6
\* number of upload_document calls on the one DocumentService
NumUploads == 1

Page(text, images) == [text |-> text, images |-> images]

PageKinds == { Page(t, i) : t \in {SIGNIFICANT_TEXT, SIGNIFICANT_TEXT + 1}, i \in {0, 1} }

File(ext, exists, opens, size, pages, markers) ==
  [ext |-> ext, exists |-> exists, opens |-> opens, size |-> size,
   pages |-> pages, markers |-> markers]

Returned(value) == [kind |-> "return", value |-> value]
Raised(exc)     == [kind |-> "raise", value |-> exc]

Min(a, b) == IF a < b THEN a ELSE b

\* a bug: every page of the file is analysed
AnalyzePages_AllPages(pages) ==
  LET text_pages == Cardinality({ n \in 1..Len(pages) : pages[n].text > SIGNIFICANT_TEXT })
      image_pages == Cardinality({ n \in 1..Len(pages) : pages[n].images > 0 })
  IN IF text_pages = 0 /\ image_pages > 0 THEN "scanned"
     ELSE IF text_pages > 0 /\ image_pages = 0 THEN "text"
     ELSE IF text_pages > 0 /\ image_pages > 0 THEN "mixed"
     ELSE "unknown"

\* document_service.py:229-259, pypdf_service.py:164-194
AnalyzePages(pages) ==
  LET max_pages == Min(MAX_ANALYZED_PAGES, Len(pages))
      text_pages == Cardinality({ n \in 1..max_pages : pages[n].text > SIGNIFICANT_TEXT })
      image_pages == Cardinality({ n \in 1..max_pages : pages[n].images > 0 })
  IN IF text_pages = 0 /\ image_pages > 0 THEN "scanned"
     ELSE IF text_pages > 0 /\ image_pages = 0 THEN "text"
     ELSE IF text_pages > 0 /\ image_pages > 0 THEN "mixed"
     ELSE "unknown"

\* document_service.py:269-285, pypdf_service.py:200-222
_basic_pdf_detection(file) ==
  IF ~file.opens THEN "unknown"
  ELSE IF file.markers = "/Font" THEN "text"
  ELSE IF file.markers = "/Image" THEN "scanned"
  ELSE "unknown"

\* document_service.py:214-267, pypdf_service.py:143-198.  `fitz`: whether
\* PyMuPDF can be imported.  os.path.getsize (line 217) is outside every try.
_detect_pdf_type(file, fitz) ==
  IF ~file.exists THEN Raised("FileNotFoundError")
  ELSE IF file.size > LARGE_FILE_SIZE THEN Returned("scanned")
  ELSE IF ~fitz THEN Returned(_basic_pdf_detection(file))
  ELSE IF ~file.opens THEN Returned("unknown")
  ELSE Returned(AnalyzePages(file.pages))

(***************************************************************************)
(* Extraction units (LangchainDocument).  kind: "content" (extracted text), *)
(* "blank" (whitespace only), "placeholder" / "error" (a fixed message      *)
(* standing in for content); error: whether the metadata has an error key;  *)
(* by: the loader that returned the unit.                                   *)
(***************************************************************************)
LangchainDocument(by, page, kind, error) ==
  [by |-> by, page |-> page, kind |-> kind, error |-> error]

\* `doc.page_content.strip()` is non-empty
HasText(doc) == doc.kind # "blank"

\* what a backend's own extraction produced
Inner == {"content", "partly", "blank", "empty", "raises"}

ContentUnits(by) ==
  << LangchainDocument(by, 1, "content", FALSE), LangchainDocument(by, 2, "content", FALSE) >>
PartlyUnits(by) ==
  << LangchainDocument(by, 1, "content", FALSE), LangchainDocument(by, 2, "blank", FALSE) >>
BlankUnits(by) == << LangchainDocument(by, 1, "blank", FALSE) >>

\* unstructured_service.py:35-115: the first configuration that returns a
\* non-empty list wins, exceptions end in []
UnstructuredLoader_load(by, inner) ==
  IF inner = "content" THEN ContentUnits(by)
  ELSE IF inner = "partly" THEN PartlyUnits(by)
  ELSE IF inner = "blank" THEN BlankUnits(by)
  ELSE <<>>

\* pypdf_service.py:348-426
_load_with_optimized_unstructured(inner, available) ==
  IF ~available THEN <<>> ELSE UnstructuredLoader_load("pypdf", inner)

\* pypdf_service.py:224-292
_load_pdf_optimized(inner, inner2, available) ==
  IF inner \in {"content", "partly"}
  THEN << LangchainDocument("pypdf", 1, "content", FALSE) >>
         \o (IF inner = "content" THEN << LangchainDocument("pypdf", 2, "content", FALSE) >> ELSE <<>>)
  ELSE IF inner = "empty" THEN <<>>
  ELSE IF available THEN _load_with_optimized_unstructured(inner2, available)
  ELSE IF inner = "blank" THEN << LangchainDocument("pypdf", 1, "placeholder", FALSE) >>
  ELSE << LangchainDocument("pypdf", 1, "error", TRUE) >>

\* pypdf_service.py:52-117 (a PDF_CACHE hit returns units an earlier call of
\* this function returned)
PDFLoader_load(file, inner, inner2, available) ==
  IF file.ext = ".pdf"
  THEN IF ~file.exists THEN Raised("FileNotFoundError")
       ELSE IF _detect_pdf_type(file, TRUE).value = "scanned" /\ available
            THEN Returned(_load_with_optimized_unstructured(inner2, available))
            ELSE Returned(_load_pdf_optimized(inner, inner2, available))
  ELSE IF file.ext = ".txt"
  THEN Returned(IF inner = "raises" \/ ~file.exists THEN <<>>
                ELSE IF inner = "content" THEN << LangchainDocument("pypdf", 1, "content", FALSE) >>
                ELSE BlankUnits("pypdf"))
  ELSE Raised("ValueError")

\* gpt4o_pdf_service.py:37-119.  The path of an upload holds a fresh uuid, so
\* _document_cache has no entry for it.
GPT4OPDFLoader_load(file, inner) ==
  IF file.ext # ".pdf" THEN Raised("ValueError")
  ELSE IF inner = "content" THEN Returned(ContentUnits("gpt4o_pdf"))
  ELSE IF inner = "partly" THEN Returned(PartlyUnits("gpt4o_pdf"))
  ELSE IF inner \in {"blank", "empty"}
       THEN Returned(<< LangchainDocument("gpt4o_pdf", 1, "placeholder", FALSE) >>)
  ELSE Returned(<< LangchainDocument("gpt4o_pdf", 1, "error", TRUE) >>)

\* create_loader returned None
NoLoader == "None"

\* loaders/factory.py:32-71.  Without the unstructured package the factory
\* returns None (or UnstructuredLoader.__init__ raises, unstructured_service.py
\* 26-32, which the strategies catch like a missing loader).
create_loader(loader_type, available) ==
  IF loader_type = "unstructured" THEN (IF available THEN "unstructured" ELSE NoLoader)
  ELSE IF loader_type \in {"pypdf", "pymupdf", "gpt4o_pdf", "enhanced_pdf", "textract", "simple_pdf"}
       THEN loader_type
  ELSE NoLoader

\* `await loader.load(file_path)` for the loader create_loader returned
Load(loader, file, inner, inner2, available) ==
  CASE loader = "pypdf" -> PDFLoader_load(file, inner, inner2, available)
    [] loader = "unstructured" -> Returned(UnstructuredLoader_load("unstructured", inner))
    [] loader = "gpt4o_pdf" -> GPT4OPDFLoader_load(file, inner)

\* a bug: no result counts as a success
Succeeded_Never(documents) == FALSE

\* document_service.py:298, 359, 387, 409:
\* `documents and any(doc.page_content.strip() for doc in documents)`
Succeeded(documents) ==
  documents # <<>> /\ \E n \in 1..Len(documents) : HasText(documents[n])

\* a bug: the text strategy tries Unstructured before PyPDF
Order_TextSwapped(strategy) ==
  CASE strategy = "scanned" -> <<"unstructured", "gpt4o_pdf">>
    [] strategy = "text" -> <<"unstructured", "pypdf">>
    [] strategy = "mixed" -> <<"pypdf", "unstructured", "gpt4o_pdf">>
    [] strategy = "fallbacks" -> <<"gpt4o_pdf">>

\* the loader types a strategy assigns to settings.loader, in order:
\* _load_scanned_pdf (287-374), _load_text_pdf (376-424), _load_mixed_pdf
\* (426-535), _load_document_with_fallbacks after its primary loader (563-588)
Order(strategy) ==
  CASE strategy = "scanned" -> <<"unstructured", "gpt4o_pdf">>
    [] strategy = "text" -> <<"pypdf", "unstructured">>
    [] strategy = "mixed" -> <<"pypdf", "unstructured", "gpt4o_pdf">>
    [] strategy = "fallbacks" -> <<"gpt4o_pdf">>

\* document_service.py:200-208
Strategy(pdf_type) ==
  IF pdf_type = "scanned" THEN "scanned"
  ELSE IF pdf_type = "text" THEN "text"
  ELSE "mixed"

(***************************************************************************)
(* Chunks.  A chunk inherits the metadata of its unit; `part` numbers the  *)
(* chunks of one unit.                                                     *)
(***************************************************************************)
Chunk(doc, part) ==
  [by |-> doc.by, page |-> doc.page, part |-> part, kind |-> doc.kind, error |-> doc.error]

\* RecursiveCharacterTextSplitter (chunk_size 512): no chunk for whitespace,
\* one for a short message, several for a page of text
ChunksOf(doc) ==
  IF doc.kind = "blank" THEN <<>>
  ELSE IF doc.kind = "content" THEN << Chunk(doc, 1), Chunk(doc, 2) >>
  ELSE << Chunk(doc, 1) >>

\* document_service.py:145-159: the batches are gathered and extended in order
RECURSIVE split_documents(_)
split_documents(docs) ==
  IF docs = <<>> THEN <<>> ELSE ChunksOf(Head(docs)) \o split_documents(Tail(docs))

\* document_service.py:123-126
NoContentPlaceholder ==
  Chunk(LangchainDocument("_process_document", 1, "placeholder", TRUE), 1)

\* document_service.py:167-170
ChunkingFailedPlaceholder ==
  Chunk(LangchainDocument("_process_document", 1, "placeholder", TRUE), 2)

(***************************************************************************)
(* Uploads.  pc: "idle", "loading" (awaiting loader.load), "splitting"     *)
(* (awaiting the split batches), "done" (_process_document returned         *)
(* `result`), "raised" (_load_document raised).  tried: the loader types    *)
(* passed to create_loader; attempts: the loads that have ended, each with  *)
(* its loader and what it returned or raised; running: the loads awaited.   *)
(***************************************************************************)
Uploads == 1..NumUploads

NewUpload ==
  [file |-> None, pc |-> "idle", original_loader_type |-> NoLoader, pdf_type |-> None,
   strategy |-> "none", k |-> 0, tried |-> <<>>, attempts |-> <<>>, running |-> {},
   docs |-> <<>>, result |-> <<>>]

\* a bug: an empty `docs` is returned as it is
Loaded_NoPlaceholder(up, docs) ==
  IF docs = <<>>
  THEN [up EXCEPT !.pc = "done", !.result = <<>>]
  ELSE [up EXCEPT !.pc = "splitting", !.docs = docs]

\* document_service.py:116-126: _load_document returned `docs`
Loaded(up, docs) ==
  IF docs = <<>>
  THEN [up EXCEPT !.pc = "done", !.result = << NoContentPlaceholder >>]
  ELSE [up EXCEPT !.pc = "splitting", !.docs = docs]

\* The steps of a strategy from its k-th backend up to the next await:
\* `self.settings.loader = X`, create_loader, and either `await load` or,
\* when no loader was created, the `finally` and the next backend; after the
\* last backend `return []`.  Yields the upload and settings.loader.
RECURSIVE TryFrom(_, _, _)
TryFrom(up, k, available) ==
  LET order == Order(up.strategy)
  IN IF k > Len(order)
     THEN [up |-> Loaded(up, <<>>), settings_loader |-> up.original_loader_type]
     ELSE LET loader == create_loader(order[k], available)
              tried == [up EXCEPT !.tried = Append(@, order[k]), !.k = k]
          IN IF loader # NoLoader
             THEN [up |-> [tried EXCEPT !.pc = "loading", !.running = @ \cup {loader}],
                   settings_loader |-> order[k]]
             ELSE TryFrom(tried, k + 1, available)

\* document_service.py:186-191 and 539-547: the primary loader, created from
\* settings.loader as it is; ValueError when there is none
StartPrimary(up, strategy, available) ==
  LET loader == create_loader(settings_loader, available)
      tried == [up EXCEPT !.strategy = strategy, !.tried = Append(@, settings_loader)]
  IN IF loader = NoLoader THEN [tried EXCEPT !.pc = "raised"]
     ELSE [tried EXCEPT !.pc = "loading", !.running = @ \cup {loader}]

\* upload_document (41-107) -> _process_document (109-116) -> _load_document
\* (176-212), up to the first await of a load
upload_document(u, file) ==
  /\ uploads[u].pc = "idle"
  /\ LET up == [uploads[u] EXCEPT !.file = file, !.original_loader_type = settings_loader]
         pdf_type == _detect_pdf_type(file, TRUE)
     IN IF file.ext # ".pdf"
        THEN /\ uploads' = [uploads EXCEPT ![u] = StartPrimary(up, "primary", UNSTRUCTURED_AVAILABLE)]
             /\ UNCHANGED settings_loader
        ELSE IF pdf_type.kind = "raise"
        THEN /\ uploads' = [uploads EXCEPT ![u] =
                  StartPrimary([up EXCEPT !.pdf_type = pdf_type], "fallbacks", UNSTRUCTURED_AVAILABLE)]
             /\ UNCHANGED settings_loader
        ELSE LET next == TryFrom([up EXCEPT !.pdf_type = pdf_type,
                                            !.strategy = Strategy(pdf_type.value)],
                                 1, UNSTRUCTURED_AVAILABLE)
             IN /\ uploads' = [uploads EXCEPT ![u] = next.up]
                /\ settings_loader' = next.settings_loader
  /\ UNCHANGED <<qvars, svars, UNSTRUCTURED_AVAILABLE, probe, detected>>

\* The awaited load ends.  Non-PDF: its result is returned as it is, its
\* exception propagates.  A strategy: on success restore settings.loader and
\* return the documents; else `finally` and the next backend.
BackendFinishes(u, inner, inner2) ==
  /\ uploads[u].pc = "loading"
  /\ LET up == uploads[u]
         loader == CHOOSE l \in up.running : TRUE
         outcome == Load(loader, up.file, inner, inner2, UNSTRUCTURED_AVAILABLE)
         finished == [up EXCEPT !.running = @ \ {loader},
                                !.attempts = Append(@, [loader |-> loader, outcome |-> outcome])]
     IN IF up.strategy = "primary"
        THEN /\ uploads' = [uploads EXCEPT ![u] =
                   IF outcome.kind = "raise" THEN [finished EXCEPT !.pc = "raised"]
                   ELSE Loaded(finished, outcome.value)]
             /\ UNCHANGED settings_loader
        ELSE IF outcome.kind = "return" /\ Succeeded(outcome.value)
        THEN /\ uploads' = [uploads EXCEPT ![u] = Loaded(finished, outcome.value)]
             /\ settings_loader' = IF up.k = 0 THEN settings_loader ELSE up.original_loader_type
        ELSE LET next == TryFrom(finished, up.k + 1, UNSTRUCTURED_AVAILABLE)
             IN /\ uploads' = [uploads EXCEPT ![u] = next.up]
                /\ settings_loader' = next.settings_loader
  /\ UNCHANGED <<qvars, svars, UNSTRUCTURED_AVAILABLE, probe, detected>>

\* document_service.py:128-174: the split batches have been gathered
SplitDone(u) ==
  /\ uploads[u].pc = "splitting"
  /\ LET all_chunks == split_documents(uploads[u].docs)
     IN uploads' = [uploads EXCEPT ![u] =
          [@ EXCEPT !.pc = "done",
                    !.result = IF all_chunks = <<>> THEN << ChunkingFailedPlaceholder >>
                               ELSE all_chunks]]
  /\ UNCHANGED <<qvars, svars, settings_loader, UNSTRUCTURED_AVAILABLE, probe, detected>>

\* one call of _detect_pdf_type on the probed file
DetectPdfType ==
  /\ probe # None
  /\ detected = None
  /\ detected' = _detect_pdf_type(probe.file, probe.fitz)
  /\ UNCHANGED <<qvars, svars, settings_loader, UNSTRUCTURED_AVAILABLE, uploads, probe>>

\* core/config.py:95: loader = "pypdf"
ExtractInit ==
  /\ settings_loader = "pypdf"
  /\ uploads = [u \in Uploads |-> NewUpload]
  /\ probe = None
  /\ detected = None

TextPdf    == File(".pdf", TRUE, TRUE, 1000, << Page(SIGNIFICANT_TEXT + 1, 0) >>, "/Font")
ScannedPdf == File(".pdf", TRUE, TRUE, 1000, << Page(0, 1) >>, "/Image")
MixedPdf   == File(".pdf", TRUE, TRUE, 1000, << Page(SIGNIFICANT_TEXT + 1, 1) >>, "/Font")
CorruptPdf == File(".pdf", TRUE, FALSE, 1000, <<>>, "none")
MissingPdf == File(".pdf", FALSE, FALSE, 0, <<>>, "none")
TextFile   == File(".txt", TRUE, TRUE, 1000, <<>>, "none")

UploadFiles == {TextPdf, ScannedPdf, MixedPdf, CorruptPdf, MissingPdf, TextFile}

ExtractNext ==
  \/ \E u \in Uploads, file \in UploadFiles : upload_document(u, file)
  \/ \E u \in Uploads, inner \in Inner, inner2 \in Inner : BackendFinishes(u, inner, inner2)
  \/ \E u \in Uploads : SplitDone(u)

(***************************************************************************)
(* The content caches of the loaders.                                      *)
(*                                                                         *)
(* A dict is a sequence of entries in insertion order: assigning to a key  *)
(* that is present keeps its position, a new key goes to the end.  A       *)
(* stored file is described by its path, its first 8192 bytes (`head`)     *)
(* and the bytes after them (`tail`).                                      *)
(***************************************************************************)
\* pypdf_service.py:39, in seconds
CACHE_EXPIRATION == 1800
\* pypdf_service.py:41
MAX_CACHE_SIZE == 100
\* textract_service.py:27, in seconds
TEXTRACT_CACHE_EXPIRATION == 3600
\* gpt4o_pdf_service.py:34
max_cache_size == 100
\* gpt4o_pdf_service.py:35, in seconds
cache_ttl == 3600

\* seconds between two readings of the clock that differ
ClockStep == 1800
\* number of times the clock advances
MaxTicks == 2
\* number of load() calls on the caching loaders
NumLoads == 2
StoredFile(path, head, tail) ==
  [path |-> path, head |-> head, tail |-> tail, ext |-> ".pdf", exists |-> TRUE,
   opens |-> TRUE, size |-> 1000, pages |-> << Page(SIGNIFICANT_TEXT + 1, 0) >>,
   markers |-> "/Font"]

\* a.pdf and b.pdf hold the same bytes, d.pdf differs from them in its first
\* 8192 bytes
StoredFiles ==
  { StoredFile("a.pdf", 1, 1), StoredFile("b.pdf", 1, 1), StoredFile("d.pdf", 2, 1) }

\* a bug: the key is taken from the size of the file
PDFLoader_get_file_hash_Size(file) == file.size

\* pypdf_service.py:119-129: md5 of the first 8192 bytes
PDFLoader_get_file_hash(file) == file.head

\* textract_service.py:95-122: sha256 of the whole file
TextractLoader_get_file_hash(file) == << file.head, file.tail >>

Entry(key, timestamp, documents) ==
  [key |-> key, timestamp |-> timestamp, documents |-> documents]

Keys(cache) == { cache[n].key : n \in DOMAIN cache }

\* cache[key], for a key that is present
Get(cache, key) == cache[CHOOSE n \in DOMAIN cache : cache[n].key = key]

\* cache[entry.key] = ...
SetItem(cache, entry) ==
  IF entry.key \in Keys(cache)
  THEN [n \in DOMAIN cache |-> IF cache[n].key = entry.key THEN entry ELSE cache[n]]
  ELSE Append(cache, entry)

\* cache.pop(key)
Pop(cache, key) == SelectSeq(cache, LAMBDA e : e.key # key)

\* a bug: the entry inserted first is taken for the oldest
oldest_key_FirstInserted(cache) == cache[1].key

\* pypdf_service.py:139: sorted(PDF_CACHE.items(), key=lambda x: x[1][0])[0][0];
\* the sort is stable, so of several smallest timestamps the first in dict
\* order is taken
oldest_key(cache) ==
  LET first == CHOOSE n \in DOMAIN cache :
                 \A m \in DOMAIN cache :
                   \/ cache[n].timestamp < cache[m].timestamp
                   \/ cache[n].timestamp = cache[m].timestamp /\ n <= m
  IN cache[first].key

\* pypdf_service.py:131-141, on the cache `cache` at time `time`
_update_cache(cache, file_hash, documents, time) ==
  LET put == SetItem(cache, Entry(file_hash, time, documents))
  IN IF Len(put) > MAX_CACHE_SIZE THEN Pop(put, oldest_key(put)) ELSE put

\* pypdf_service.py:58-66: the entry load returns, None when it goes on to
\* extract
PDFLoader_cached(cache, file, time) ==
  LET file_hash == PDFLoader_get_file_hash(file)
  IN IF file_hash \in Keys(cache)
        /\ time - Get(cache, file_hash).timestamp < CACHE_EXPIRATION
        /\ Get(cache, file_hash).documents # <<>>
     THEN Get(cache, file_hash)
     ELSE None

\* textract_service.py:70-77
TextractLoader_cached(cache, file, time) ==
  LET file_hash == TextractLoader_get_file_hash(file)
  IN IF file_hash \in Keys(cache)
        /\ time - Get(cache, file_hash).timestamp < TEXTRACT_CACHE_EXPIRATION
     THEN Get(cache, file_hash)
     ELSE None

\* gpt4o_pdf_service.py:52-56 (use_cache is True: configure has no caller).
\* The entries of _document_cache hold no timestamp in the program; the
\* model keeps the time of the assignment beside the documents, and no
\* operator of the program reads it.
GPT4OPDFLoader_cached(cache, file) ==
  IF file.path \in Keys(cache) THEN Get(cache, file.path) ELSE None

\* gpt4o_pdf_service.py:100-107
GPT4OPDFLoader_cache(cache, file, documents, time) ==
  LET room == IF Len(cache) >= max_cache_size THEN Pop(cache, cache[1].key) ELSE cache
  IN SetItem(room, Entry(file.path, time, documents))

\* textract_service.py:231-267: the pages Textract returned, a message unit
\* for an empty answer, a unit with an error key for an exception
_process_with_textract_s3(inner) ==
  IF inner = "content" THEN ContentUnits("textract")
  ELSE IF inner = "partly" THEN PartlyUnits("textract")
  ELSE IF inner = "blank" THEN BlankUnits("textract")
  ELSE IF inner = "empty" THEN << LangchainDocument("textract", 1, "placeholder", FALSE) >>
  ELSE << LangchainDocument("textract", 1, "error", TRUE) >>

\* textract_service.py:79-93: an exception of _upload_to_s3 (178-229)
\* propagates
TextractLoader_load(inner, inner2) ==
  IF inner = "raises" THEN Raised("Exception")
  ELSE Returned(_process_with_textract_s3(inner2))

CachingLoaders == {"pypdf", "gpt4o_pdf", "textract"}

Loads == 1..NumLoads

\* pc: "idle", "extracting" (awaiting the backends), "done".  started,
\* ended: the time of the call and of its return; after: the calls that had
\* returned when this one began; hit, age: whether the result came from the
\* cache, and the age of the entry then; extracted: whether a backend was
\* invoked.
NewLoad ==
  [pc |-> "idle", loader |-> NoLoader, file |-> None, after |-> {}, started |-> 0,
   ended |-> 0, hit |-> FALSE, age |-> 0, extracted |-> FALSE, returned |-> None]

\* the cache lookup of loader.load(file)
Cached(loader, file) ==
  CASE loader = "pypdf" -> PDFLoader_cached(PDF_CACHE, file, now)
    [] loader = "textract" -> TextractLoader_cached(TEXTRACT_CACHE, file, now)
    [] loader = "gpt4o_pdf" -> GPT4OPDFLoader_cached(_document_cache, file)

\* load() from its call to the return of the cached documents or to the
\* await of the extraction (the calls take the slots of `loads` in order): pypdf_service.py:52-71, textract_service.py:57-80,
\* gpt4o_pdf_service.py:37-60
load(l, loader, file) ==
  /\ loads[l].pc = "idle"
  /\ \A k \in Loads : k < l => loads[k].pc # "idle"
  /\ LET call == [NewLoad EXCEPT !.loader = loader, !.file = file, !.started = now,
                                 !.after = { k \in Loads : loads[k].pc = "done" }]
         entry == Cached(loader, file)
     IN loads' = [loads EXCEPT ![l] =
          IF entry # None
          THEN [call EXCEPT !.pc = "done", !.ended = now, !.hit = TRUE,
                            !.age = now - entry.timestamp,
                            !.returned = Returned(entry.documents)]
          ELSE [call EXCEPT !.pc = "extracting"]]
  /\ UNCHANGED <<now, PDF_CACHE, TEXTRACT_CACHE, _document_cache, last_put>>
  /\ UNCHANGED <<qvars, evars, tvars, avars, pvars>>

\* The extraction ends: load() from there to its return.
\* pypdf_service.py:73-100: a non-empty result is cached;
\* gpt4o_pdf_service.py:58-119: what the try block produced is cached, the
\* unit of the except clause is not; textract_service.py:82-93: whatever
\* _process_with_textract_s3 returned is cached.
ExtractionEnds(l, inner, inner2) ==
  /\ loads[l].pc = "extracting"
  /\ LET call == loads[l]
         outcome == CASE call.loader = "pypdf" ->
                            PDFLoader_load(call.file, inner, inner2, UNSTRUCTURED_AVAILABLE)
                      [] call.loader = "gpt4o_pdf" -> GPT4OPDFLoader_load(call.file, inner)
                      [] call.loader = "textract" -> TextractLoader_load(inner, inner2)
         documents == outcome.value
     IN /\ loads' = [loads EXCEPT ![l] =
               [call EXCEPT !.pc = "done", !.ended = now, !.extracted = TRUE,
                            !.returned = outcome]]
        /\ IF call.loader = "pypdf" /\ documents # <<>>
           THEN /\ PDF_CACHE' = _update_cache(PDF_CACHE, PDFLoader_get_file_hash(call.file),
                                              documents, now)
                /\ last_put' = [before |-> PDF_CACHE,
                                key |-> PDFLoader_get_file_hash(call.file)]
           ELSE UNCHANGED <<PDF_CACHE, last_put>>
        /\ IF call.loader = "gpt4o_pdf" /\ inner # "raises"
           THEN _document_cache' = GPT4OPDFLoader_cache(_document_cache, call.file, documents, now)
           ELSE UNCHANGED _document_cache
        /\ IF call.loader = "textract" /\ outcome.kind = "return"
           THEN TEXTRACT_CACHE' = SetItem(TEXTRACT_CACHE,
                  Entry(TextractLoader_get_file_hash(call.file), now, documents))
           ELSE UNCHANGED TEXTRACT_CACHE
  /\ UNCHANGED now
  /\ UNCHANGED <<qvars, evars, tvars, avars, pvars>>

\* time passes
Tick ==
  /\ now < MaxTicks * ClockStep
  /\ now' = now + ClockStep
  /\ UNCHANGED <<PDF_CACHE, TEXTRACT_CACHE, _document_cache, loads, last_put>>
  /\ UNCHANGED <<qvars, evars, tvars, avars, pvars>>

\* a PDF_CACHE at capacity: a.pdf was loaded, and then other documents, all
\* at time 0
WarmCache ==
  << Entry(1, 0, ContentUnits("pypdf")) >>
    \o [n \in 1..(MAX_CACHE_SIZE - 1) |-> Entry(100 + n, 0, ContentUnits("pypdf"))]

\* no load() call has been made
CachesIdle(cache) ==
  /\ now = 0
  /\ PDF_CACHE = cache
  /\ TEXTRACT_CACHE = <<>>
  /\ _document_cache = <<>>
  /\ loads = [l \in Loads |-> NewLoad]
  /\ last_put = None

CacheNext ==
  \/ \E l \in Loads, loader \in CachingLoaders, file \in StoredFiles : load(l, loader, file)
  \/ \E l \in Loads, inner \in Inner, inner2 \in Inner : ExtractionEnds(l, inner, inner2)
  \/ Tick

(***************************************************************************)
(* The task registry of OpenAICompletionService.                           *)
(*                                                                         *)
(* A task (the asyncio.Task of one _make_api_call) is named by the call    *)
(* that created it and the number of the attempt.  A call keeps the state  *)
(* of its latest task: "pending" until the API call has returned, raised   *)
(* or been cancelled, then "done"; must_cancel: Task.cancel() was called   *)
(* on it and the CancelledError has not been delivered yet.                *)
(***************************************************************************)
\* openai_llm_service.py:20
OPENAI_MAX_RETRIES == 3
\* openai_llm_service.py:22, in seconds
INITIAL_BACKOFF == 1

\* number of generate_completion calls
NumCalls == 2
\* number of cancel_task calls that return True
MaxCancels == 2

\* the task_id argument was left None
NoId == "None"

\* task ids a caller passes; "task_0" is also the first generated id
GivenIds == {"task_0", "job"}

\* openai_llm_service.py:44: f"task_{self._next_task_id}"
TaskName(n) == << "task_0", "task_1", "task_2", "task_3" >>[n + 1]

TaskIds == GivenIds \cup { TaskName(n) : n \in 0..(NumCalls - 1) }

Calls == 1..NumCalls

Task(call, attempt) == [call |-> call, attempt |-> attempt]

\* pc: "idle", "awaiting" (in wait_for), "backoff" (in asyncio.sleep),
\* "returned", "raised" (the final Exception), "cancelled" (CancelledError
\* left the call).  cancels: the cancel_task calls that returned True for a
\* task of this call.  slept: the delays of the backoff sleeps the call has
\* started, in milliseconds.
NewCall ==
  [pc |-> "idle", task_id |-> NoId, retries |-> 0, attempt |-> 0, task |-> "none",
   must_cancel |-> FALSE, outcome |-> "none", result |-> "none", cancels |-> 0,
   slept |-> <<>>]

\* openai_llm_service.py:48-51
register_task(active, task_id, task) ==
  [id \in DOMAIN active \cup {task_id} |-> IF id = task_id THEN task ELSE active[id]]

\* a bug: the entry is left in the registry
unregister_task_Kept(active, task_id) == active

\* openai_llm_service.py:53-57
unregister_task(active, task_id) ==
  [id \in DOMAIN active \ {task_id} |-> active[id]]

\* task.done()
done(cs, task) ==
  ~(cs[task.call].attempt = task.attempt /\ cs[task.call].task = "pending")

\* a bug: a registered task is cancelled whether or not it is done
cancel_task_returns_Registered(active, cs, task_id) == task_id \in DOMAIN active

\* openai_llm_service.py:59-68: the value cancel_task returns
cancel_task_returns(active, cs, task_id) ==
  task_id \in DOMAIN active /\ ~done(cs, active[task_id])

\* openai_llm_service.py:101-113: one turn of the loop up to the await of
\* wait_for: the task is created and registered
StartAttempt(call) ==
  [call EXCEPT !.pc = "awaiting", !.attempt = @ + 1, !.task = "pending",
               !.must_cancel = FALSE, !.outcome = "none"]

\* openai_llm_service.py:159, 170: wait_time = backoff * (2 ** (retries - 1)),
\* with `retries` already incremented; in milliseconds
wait_time(retries) == 1000 * INITIAL_BACKOFF * 2 ^ (retries - 1)

\* openai_llm_service.py:150-176: an attempt failed (TimeoutError or another
\* Exception); sleep before the next one, or raise after the last
AttemptFailed(call) ==
  IF call.retries + 1 <= OPENAI_MAX_RETRIES
  THEN [call EXCEPT !.retries = @ + 1, !.pc = "backoff",
                    !.slept = Append(@, wait_time(call.retries + 1))]
  ELSE [call EXCEPT !.retries = @ + 1, !.pc = "raised", !.result = "Exception"]

\* a bug: the CancelledError is handled as an Exception of the attempt
RaiseCancelled_AsException(call) == AttemptFailed(call)

\* openai_llm_service.py:115-120, 150, 163: the CancelledError of the task
\* is raised by wait_for; it is no TimeoutError and no Exception, so it
\* leaves the loop and the call
RaiseCancelled(call) ==
  [call EXCEPT !.pc = "cancelled", !.result = "CancelledError"]

\* openai_llm_service.py:81-117: generate_completion up to its first await
generate_completion(c, given) ==
  /\ calls[c].pc = "idle"
  /\ \A k \in DOMAIN calls : k < c => calls[k].pc # "idle"
  /\ IF ~client
     THEN /\ calls' = [calls EXCEPT ![c] = [@ EXCEPT !.pc = "returned", !.result = "None"]]
          /\ UNCHANGED <<active_tasks, _next_task_id>>
     ELSE LET task_id == IF given = NoId THEN TaskName(_next_task_id) ELSE given
              call == StartAttempt([calls[c] EXCEPT !.task_id = task_id])
          IN /\ _next_task_id' = IF given = NoId THEN _next_task_id + 1 ELSE _next_task_id
             /\ calls' = [calls EXCEPT ![c] = call]
             /\ active_tasks' = register_task(active_tasks, task_id, Task(c, call.attempt))
  /\ UNCHANGED <<client, last_cancel>>
  /\ UNCHANGED <<qvars, evars, cvars, avars, pvars>>

\* The task of the API call ends: with a response that validates
\* ("response"), with one that makes generate_completion return None
\* ("none": a null response, a null parse, all fields None, a ValueError),
\* with an exception ("error"), or, when its cancellation was requested, with
\* CancelledError.
ApiCallEnds(c, outcome) ==
  /\ calls[c].pc = "awaiting"
  /\ calls[c].task = "pending"
  /\ calls' = [calls EXCEPT ![c] =
       [@ EXCEPT !.task = "done", !.must_cancel = FALSE,
                 !.outcome = IF calls[c].must_cancel THEN "cancelled" ELSE outcome]]
  /\ UNCHANGED <<client, active_tasks, _next_task_id, last_cancel>>
  /\ UNCHANGED <<qvars, evars, cvars, avars, pvars>>

\* openai_llm_service.py:117-176: wait_for returns or raises what the task
\* ended with; `finally` unregisters; then return, retry or raise.
\* CancelledError is no Exception: it leaves the call.
WaitForEnds(c) ==
  /\ calls[c].pc = "awaiting"
  /\ calls[c].task = "done"
  /\ LET call == calls[c]
     IN /\ active_tasks' = unregister_task(active_tasks, call.task_id)
        /\ calls' = [calls EXCEPT ![c] =
             CASE call.outcome = "response" ->
                    [call EXCEPT !.pc = "returned", !.result = "response"]
               [] call.outcome = "none" ->
                    [call EXCEPT !.pc = "returned", !.result = "None"]
               [] call.outcome = "error" -> AttemptFailed(call)
               [] call.outcome = "cancelled" -> RaiseCancelled(call)]
  /\ UNCHANGED <<client, _next_task_id, last_cancel>>
  /\ UNCHANGED <<qvars, evars, cvars, avars, pvars>>

\* openai_llm_service.py:117-120, 150-161: the timeout of wait_for expires:
\* wait_for cancels the task and raises TimeoutError
WaitForTimesOut(c) ==
  /\ calls[c].pc = "awaiting"
  /\ calls[c].task = "pending"
  /\ ~calls[c].must_cancel
  /\ active_tasks' = unregister_task(active_tasks, calls[c].task_id)
  /\ calls' = [calls EXCEPT ![c] =
       AttemptFailed([@ EXCEPT !.task = "done", !.outcome = "cancelled"])]
  /\ UNCHANGED <<client, _next_task_id, last_cancel>>
  /\ UNCHANGED <<qvars, evars, cvars, avars, pvars>>

\* openai_llm_service.py:161, 172 and 101-117: the sleep ends, the next
\* attempt creates and registers its task
SleepEnds(c) ==
  /\ calls[c].pc = "backoff"
  /\ calls' = [calls EXCEPT ![c] = StartAttempt(@)]
  /\ active_tasks' = register_task(active_tasks, calls[c].task_id,
                                   Task(c, calls[c].attempt + 1))
  /\ UNCHANGED <<client, _next_task_id, last_cancel>>
  /\ UNCHANGED <<qvars, evars, cvars, avars, pvars>>

\* The caller of generate_completion is cancelled while the call awaits:
\* CancelledError is raised at the await; in wait_for the task is cancelled
\* too and `finally` unregisters, in asyncio.sleep nothing is registered.
CallCancelled(c) ==
  /\ calls[c].pc \in {"awaiting", "backoff"}
  /\ active_tasks' = IF calls[c].pc = "awaiting"
                     THEN unregister_task(active_tasks, calls[c].task_id)
                     ELSE active_tasks
  /\ calls' = [calls EXCEPT ![c] =
       [@ EXCEPT !.pc = "cancelled", !.result = "CancelledError",
                 !.task = IF @ = "pending" THEN "done" ELSE @,
                 !.must_cancel = FALSE]]
  /\ UNCHANGED <<client, _next_task_id, last_cancel>>
  /\ UNCHANGED <<qvars, evars, cvars, avars, pvars>>

\* openai_llm_service.py:59-68.  last_cancel keeps what the call found: the
\* registry before and after it, the task under the id and whether that task
\* was pending, and on which task Task.cancel() was called.
cancel_task(task_id) ==
  /\ \A c \in DOMAIN calls : calls[c].cancels < MaxCancels
  /\ LET returned == cancel_task_returns(active_tasks, calls, task_id)
         registered == task_id \in DOMAIN active_tasks
         task == IF registered THEN active_tasks[task_id] ELSE Task(0, 0)
     IN /\ calls' = IF returned
                    THEN [calls EXCEPT ![task.call] =
                            [@ EXCEPT !.must_cancel = TRUE, !.cancels = @ + 1]]
                    ELSE calls
        /\ active_tasks' = active_tasks
        /\ last_cancel' =
             [task_id |-> task_id, returned |-> returned, before |-> active_tasks,
              after |-> active_tasks', task |-> task,
              pending |-> registered /\ calls[task.call].attempt = task.attempt
                                     /\ calls[task.call].task = "pending",
              cancelled |-> IF returned THEN task ELSE Task(0, 0)]
  /\ UNCHANGED <<client, _next_task_id>>
  /\ UNCHANGED <<qvars, evars, cvars, avars, pvars>>

\* openai_llm_service.py:28-40
TasksIdle(configured) ==
  /\ client = configured
  /\ active_tasks = <<>>
  /\ _next_task_id = 0
  /\ calls = [c \in Calls |-> NewCall]
  /\ last_cancel = None

\* no load() call and no generate_completion call has been made
\* no function of the answer path has been called
NoCall == [fn |-> "none"]

AnswersIdle == evaluated = NoCall

\* no _process_document call is splitting
NotChunking == [pc |-> "idle"]

ChunkingIdle == chunking = NotChunking

ServicesIdle == CachesIdle(<<>>) /\ TasksIdle(TRUE) /\ AnswersIdle /\ ChunkingIdle

TasksNext ==
  \/ \E c \in Calls, given \in GivenIds \cup {NoId} : generate_completion(c, given)
  \/ \E c \in Calls, outcome \in {"response", "none", "error"} : ApiCallEnds(c, outcome)
  \/ \E c \in Calls : WaitForEnds(c)
  \/ \E c \in Calls : WaitForTimesOut(c)
  \/ \E c \in Calls : SleepEnds(c)
  \/ \E c \in Calls : CallCancelled(c)
  \/ \E task_id \in TaskIds : cancel_task(task_id)

(***************************************************************************)
(* The answer path: the functions between a request and the answer sent    *)
(* back, as functions of their arguments.  `evaluated` holds the last call. *)
(***************************************************************************)
\* query_api.py:29-35: QueryRequestSchema allows extra fields; a caller can
\* send a query type beside the document id and the prompt
NoTag == "None"
Tags == {NoTag, "decomposition", "decomposed"}

RoutedRequests ==
  { [document_id |-> d,
     prompt |-> [id |-> 1, type |-> t, rules |-> r, tag |-> FALSE],
     query_type |-> q] :
      d \in {SENTINEL, "doc"}, t \in Formats, r \in BOOLEAN, q \in Tags }

\* query.py:127-131
query_functions ==
  [decomposed |-> "decomposition_query", hybrid |-> "hybrid_query", vector |-> "simple_vector_query"]

\* a bug: the declared type is not looked at
query_type_RulesOnly(request) ==
  IF request.prompt.rules THEN "hybrid" ELSE "vector"

\* query.py:121-125
query_type(request) ==
  IF request.prompt.rules \/ request.prompt.type = "bool" THEN "hybrid" ELSE "vector"

\* query.py:68-75, 133: the query function run_query awaits
run_query_awaits(request) ==
  IF request.document_id = SENTINEL THEN "inference_query"
  ELSE query_functions[query_type(request)]

\* query.py:257-262, 270-277, 314-321 and query_service.py:356-409: the
\* query function that does what run_batch_queries does for a category
run_batch_queries_awaits(request) ==
  LET category == Category(request)
  IN IF category = "inference" THEN "inference_query"
     ELSE IF category = "simple_vector" THEN "simple_vector_query"
     ELSE "hybrid_query"

\* one request is routed by run_query and classified by run_batch_queries
Route(request) ==
  /\ evaluated' = [fn |-> "run_query", request |-> request,
                   awaited |-> run_query_awaits(request),
                   batch |-> run_batch_queries_awaits(request)]
  /\ UNCHANGED <<qvars, evars, cvars, tvars, pvars>>

(***************************************************************************)
(* Answers.  A Python value is a record with its type `t` and its value    *)
(* `v`; a str is the sequence of its characters.                           *)
(***************************************************************************)
PyNone == [t |-> "NoneType"]
PyInt(n) == [t |-> "int", v |-> n]
PyBool(b) == [t |-> "bool", v |-> b]
PyStr(s) == [t |-> "str", v |-> s]
PyList(xs) == [t |-> "list", v |-> xs]
\* the dict {'answer': x}
PyDict(x) == [t |-> "dict", v |-> x]

\* isinstance(v, int): bool is a subclass of int
IsInt(v) == v.t \in {"int", "bool"}

\* bool(v)
Truthy(v) ==
  IF v.t = "NoneType" THEN FALSE
  ELSE IF v.t = "bool" THEN v.v
  ELSE IF v.t = "int" THEN v.v # 0
  ELSE IF v.t \in {"str", "list"} THEN v.v # <<>>
  ELSE TRUE

Digits == <<"0", "1", "2", "3", "4", "5", "6", "7", "8", "9">>
Uppers == <<"A", "B", "C", "D", "E", "F", "G", "H", "I", "J", "K", "L", "M",
            "N", "O", "P", "Q", "R", "S", "T", "U", "V", "W", "X", "Y", "Z">>
Lowers == <<"a", "b", "c", "d", "e", "f", "g", "h", "i", "j", "k", "l", "m",
            "n", "o", "p", "q", "r", "s", "t", "u", "v", "w", "x", "y", "z">>

Range(s) == { s[k] : k \in DOMAIN s }

IsDigit(c) == c \in Range(Digits)
IsWordChar(c) == c \in Range(Digits) \cup Range(Uppers) \cup Range(Lowers) \cup {"_"}

\* str.lower()
lower(s) ==
  [k \in DOMAIN s |->
     IF s[k] \in Range(Uppers) THEN Lowers[CHOOSE n \in DOMAIN Uppers : Uppers[n] = s[k]]
     ELSE s[k]]

\* str.strip(chars)
RECURSIVE lstrip(_, _)
lstrip(s, chars) ==
  IF s # <<>> /\ Head(s) \in chars THEN lstrip(Tail(s), chars) ELSE s

RECURSIVE rstrip(_, _)
rstrip(s, chars) ==
  IF s # <<>> /\ s[Len(s)] \in chars THEN rstrip(SubSeq(s, 1, Len(s) - 1), chars) ELSE s

strip(s, chars) == rstrip(lstrip(s, chars), chars)

Whitespace == {" "}

\* str.split(sep) for a one-character separator
RECURSIVE split(_, _)
split(s, sep) ==
  IF \A k \in DOMAIN s : s[k] # sep THEN <<s>>
  ELSE LET k == CHOOSE k \in DOMAIN s : s[k] = sep /\ \A j \in 1..(k - 1) : s[j] # sep
       IN <<SubSeq(s, 1, k - 1)>> \o split(SubSeq(s, k + 1, Len(s)), sep)

\* the value of a non-empty run of digits
RECURSIVE Decimal(_)
Decimal(s) ==
  IF s = <<>> THEN 0
  ELSE 10 * Decimal(SubSeq(s, 1, Len(s) - 1))
       + (CHOOSE d \in 0..9 : Digits[d + 1] = s[Len(s)])

\* the digits of a natural number
RECURSIVE DigitsOf(_)
DigitsOf(n) ==
  IF n < 10 THEN <<Digits[n + 1]>> ELSE DigitsOf(n \div 10) \o <<Digits[(n % 10) + 1]>>

Ok(v) == [raises |-> FALSE, v |-> v]
Throw(exc) == [raises |-> TRUE, exc |-> exc]

\* int(str): surrounding whitespace, an optional sign, digits
int_of_str(s) ==
  LET body == strip(s, Whitespace)
      signed == body # <<>> /\ Head(body) \in {"-", "+"}
      digits == IF signed THEN Tail(body) ELSE body
  IN IF digits # <<>> /\ \A k \in DOMAIN digits : IsDigit(digits[k])
     THEN Ok(IF signed /\ Head(body) = "-" THEN 0 - Decimal(digits) ELSE Decimal(digits))
     ELSE Throw("ValueError")

\* int(v)
int(v) ==
  IF v.t = "int" THEN Ok(v.v)
  ELSE IF v.t = "bool" THEN Ok(IF v.v THEN 1 ELSE 0)
  ELSE IF v.t = "str" THEN int_of_str(v.v)
  ELSE Throw("TypeError")

\* repr(v) and str(v), for the values of the model
RECURSIVE repr(_)
RECURSIVE JoinReprs(_)
JoinReprs(xs) ==
  IF xs = <<>> THEN <<>>
  ELSE IF Len(xs) = 1 THEN repr(xs[1])
  ELSE repr(xs[1]) \o <<",", " ">> \o JoinReprs(Tail(xs))

repr(v) ==
  IF v.t = "NoneType" THEN <<"N", "o", "n", "e">>
  ELSE IF v.t = "bool" THEN (IF v.v THEN <<"T", "r", "u", "e">> ELSE <<"F", "a", "l", "s", "e">>)
  ELSE IF v.t = "int" THEN (IF v.v < 0 THEN <<"-">> \o DigitsOf(0 - v.v) ELSE DigitsOf(v.v))
  ELSE IF v.t = "str" THEN <<"'">> \o v.v \o <<"'">>
  ELSE IF v.t = "list" THEN <<"[">> \o JoinReprs(v.v) \o <<"]">>
  ELSE <<"{", "'", "a", "n", "s", "w", "e", "r", "'", ":", " ">> \o repr(v.v) \o <<"}">>

str(v) == IF v.t = "str" THEN v.v ELSE repr(v)

Quotes == {"'", "\""}

\* ast.literal_eval of one element of a display, or of a whole expression
\* that is no display: an integer, a quoted string, True, False or None;
\* a name or anything else raises ValueError or SyntaxError
literal_atom(s) ==
  LET a == strip(s, Whitespace)
      negative == a # <<>> /\ Head(a) = "-"
      digits == IF negative THEN Tail(a) ELSE a
  IN IF digits # <<>> /\ (\A k \in DOMAIN digits : IsDigit(digits[k]))
        /\ (Head(digits) # "0" \/ \A k \in DOMAIN digits : digits[k] = "0")
     THEN Ok(PyInt(IF negative THEN 0 - Decimal(digits) ELSE Decimal(digits)))
     ELSE IF Len(a) >= 2 /\ a[1] \in Quotes /\ a[Len(a)] = a[1]
             /\ \A k \in 2..(Len(a) - 1) : a[k] \notin Quotes
     THEN Ok(PyStr(SubSeq(a, 2, Len(a) - 1)))
     ELSE IF a = <<"T", "r", "u", "e">> THEN Ok(PyBool(TRUE))
     ELSE IF a = <<"F", "a", "l", "s", "e">> THEN Ok(PyBool(FALSE))
     ELSE IF a = <<"N", "o", "n", "e">> THEN Ok(PyNone)
     ELSE Throw("ValueError")

\* ast.literal_eval(s) for an expression without nesting and without a comma
\* or a quote inside a quoted string: a list display or one atom
literal_eval(s) ==
  LET e == strip(s, Whitespace)
  IN IF Len(e) >= 2 /\ e[1] = "[" /\ e[Len(e)] = "]"
     THEN LET inside == SubSeq(e, 2, Len(e) - 1)
              parts == split(inside, ",")
              \* a trailing comma is allowed after at least one element
              elements == IF Len(parts) >= 2 /\ strip(parts[Len(parts)], Whitespace) = <<>>
                          THEN SubSeq(parts, 1, Len(parts) - 1) ELSE parts
          IN IF strip(inside, Whitespace) = <<>> THEN Ok(PyList(<<>>))
             ELSE IF \E k \in DOMAIN elements : literal_atom(elements[k]).raises
             THEN Throw("ValueError")
             ELSE Ok(PyList([k \in DOMAIN elements |-> literal_atom(elements[k]).v]))
     ELSE literal_atom(e)

(***************************************************************************)
(* Entity resolution (query_service.py:57-113).  keyword_replacements is   *)
(* the dict in its order: a sequence of <<keyword, replacement>>.          *)
(***************************************************************************)
\* the regex \b at position p (between text[p] and text[p + 1])
WordBoundary(text, p) ==
  (p >= 1 /\ IsWordChar(text[p])) # (p < Len(text) /\ IsWordChar(text[p + 1]))

\* whether \b(keyword)\b matches at position p + 1
MatchesAt(text, p, keyword) ==
  /\ p + Len(keyword) <= Len(text)
  /\ SubSeq(text, p + 1, p + Len(keyword)) = keyword
  /\ WordBoundary(text, p)
  /\ WordBoundary(text, p + Len(keyword))

\* regex.sub(lambda m: keyword_replacements[m.group()], text) from position
\* p on: the leftmost match, of the first alternative that matches there
RECURSIVE regex_sub(_, _, _)
regex_sub(text, p, keyword_replacements) ==
  IF p >= Len(text) THEN <<>>
  ELSE LET hits == { n \in DOMAIN keyword_replacements :
                       MatchesAt(text, p, keyword_replacements[n][1]) }
       IN IF hits = {}
          THEN <<text[p + 1]>> \o regex_sub(text, p + 1, keyword_replacements)
          ELSE LET n == CHOOSE n \in hits : \A k \in hits : n <= k
                   \* m.group() is looked up in the dict: of two equal keys
                   \* the dict holds one, so the keys of the model differ
               IN keyword_replacements[n][2]
                    \o regex_sub(text, p + Len(keyword_replacements[n][1]), keyword_replacements)

Transformation(original, resolved) == [original |-> original, resolved |-> resolved]

\* query_service.py:96-113
replace_keywords_in_string(text, keyword_replacements) ==
  IF ~Truthy(text) THEN [text |-> text, transformation |-> Transformation(text, text)]
  ELSE LET result == PyStr(regex_sub(text.v, 0, keyword_replacements))
       IN IF result # text
          THEN [text |-> result, transformation |-> Transformation(text, result)]
          ELSE [text |-> text, transformation |-> Transformation(text, text)]

\* query_service.py:57-93
replace_keywords(text, keyword_replacements) ==
  IF ~Truthy(text) \/ keyword_replacements = <<>>
  THEN [text |-> text, transformation |-> Transformation(text, text)]
  ELSE IF text.t = "list"
  THEN LET result == PyList([k \in DOMAIN text.v |->
                               PyStr(regex_sub(text.v[k].v, 0, keyword_replacements))])
       IN [text |-> result, transformation |-> Transformation(text, result)]
  ELSE replace_keywords_in_string(text, keyword_replacements)

(***************************************************************************)
(* QueryAnswer (schemas/query_api.py:66-137).                              *)
(***************************************************************************)
\* the Union of the `answer` field: Optional[Union[int, str, bool, List[int], List[str]]]
InAnswerUnion(v) ==
  \/ v.t \in {"NoneType", "int", "bool", "str"}
  \/ v.t = "list" /\ \/ \A k \in DOMAIN v.v : v.v[k].t = "int"
                     \/ \A k \in DOMAIN v.v : v.v[k].t = "str"

\* query_api.py:76-137; `values` holds the fields validated before `answer`
RECURSIVE validate_answer_type(_, _)
validate_answer_type(v, values) ==
  LET prompt_type == IF "type" \in DOMAIN values THEN values.type ELSE "str"
  IN IF v.t = "NoneType" THEN v
     ELSE IF v.t = "dict" THEN validate_answer_type(v.v, values)
     ELSE IF prompt_type = "int" /\ ~IsInt(v)
     THEN (IF int(v).raises THEN PyInt(0) ELSE PyInt(int(v).v))
     ELSE IF prompt_type = "bool" /\ v.t # "bool"
     THEN (IF v.t = "str" /\ lower(v.v) \in {<<"t", "r", "u", "e">>, <<"y", "e", "s">>, <<"1">>} THEN PyBool(TRUE)
           ELSE PyBool(FALSE))
     ELSE IF prompt_type = "int_array" /\ v.t # "list"
     THEN (IF IsInt(v) THEN PyList(<<v>>) ELSE PyList(<<PyInt(0)>>))
     ELSE IF prompt_type = "str_array" /\ v.t # "list"
     THEN (IF v.t = "str" THEN PyList(<<v>>)
           ELSE PyList(<<PyStr(<<"E", "r", "r", "o", "r", ":", " ", "F", "a", "i", "l", "e", "d", " ", "t", "o", " ", "p", "r", "o", "c", "e", "s", "s">>)>>))
     ELSE IF prompt_type = "str" /\ v.t # "str" THEN PyStr(str(v))
     ELSE v

\* query_api.py:69-73: the fields are validated in the order of their
\* declaration (id, document_id, prompt_id, answer, type), and the validator
\* of `answer` is given the fields validated before it
FieldsBeforeAnswer(type) == [id |-> "uuid"]

\* QueryAnswer(id=..., document_id=..., prompt_id=..., answer=answer, type=type):
\* the answer it holds, or the validation error of a value outside the Union
QueryAnswer(answer, type) ==
  IF ~InAnswerUnion(answer) THEN Throw("ValidationError")
  ELSE Ok(validate_answer_type(answer, FieldsBeforeAnswer(type)))

(***************************************************************************)
(* inference_query (query_service.py:412-553) and what run_query makes of  *)
(* it (query.py:68-115).                                                   *)
(***************************************************************************)
\* the Python value of a fallback of RetryFallback and InferenceFallback
FallbackValue(token) ==
  IF token = "0" THEN PyInt(0)
  ELSE IF token = "False" THEN PyBool(FALSE)
  ELSE IF token = "[]" THEN PyList(<<>>)
  ELSE IF token = "[0]" THEN PyList(<<PyInt(0)>>)
  ELSE PyStr(<<>>)

IsArray(format) == format \in {"int_array", "str_array"}

\* query_service.py:466-483: the brackets are stripped and the items split
\* on commas, each without surrounding whitespace and quotes
manual_split(format, is_tag_query, cleaned_value) ==
  LET parts == split(SubSeq(cleaned_value, 2, Len(cleaned_value) - 1), ",")
      items == [k \in DOMAIN parts |-> strip(strip(parts[k], Whitespace), Quotes)]
      kept == SelectSeq(items, LAMBDA item : item # <<>>)
  IN IF format = "int_array"
     THEN IF \E k \in DOMAIN kept : int_of_str(kept[k]).raises
          THEN (IF is_tag_query THEN PyList(<<>>) ELSE PyList(<<PyInt(0)>>))
          ELSE PyList([k \in DOMAIN kept |-> PyInt(int_of_str(kept[k]).v)])
     ELSE IF \E k \in DOMAIN items : items[k] # <<>>
          THEN PyList([k \in DOMAIN items |-> PyStr(items[k])])
          ELSE PyList(<<>>)

\* query_service.py:439-493: the handling of the array types
array_handling(format, is_tag_query, answer_value) ==
  LET parsed ==
        IF answer_value.t # "str" THEN answer_value
        ELSE LET cleaned_value == strip(answer_value.v, Whitespace)
                 parsed_value == literal_eval(cleaned_value)
             IN IF ~parsed_value.raises
                THEN (IF parsed_value.v.t = "list" THEN parsed_value.v ELSE answer_value)
                ELSE IF Len(cleaned_value) >= 1 /\ Head(cleaned_value) = "["
                        /\ cleaned_value[Len(cleaned_value)] = "]"
                THEN manual_split(format, is_tag_query, cleaned_value)
                ELSE answer_value
  IN IF parsed.t = "list" THEN parsed
     ELSE IF format = "int_array"
     THEN (IF is_tag_query THEN PyList(<<>>) ELSE PyList(<<PyInt(0)>>))
     ELSE PyList(<<>>)

\* query_service.py:497-520: entity resolution of inference_query; regex.sub
\* raises TypeError for an item that is no str
resolve_inference(answer_value, replacements) ==
  IF replacements = <<>> \/ ~Truthy(answer_value) THEN Ok(answer_value)
  ELSE IF answer_value.t = "list"
  THEN (IF \E k \in DOMAIN answer_value.v : answer_value.v[k].t # "str"
        THEN Throw("TypeError")
        ELSE Ok(replace_keywords(answer_value, replacements).text))
  ELSE Ok(replace_keywords_in_string(PyStr(str(answer_value)), replacements).text)

\* query_service.py:426-553: the answer of the QueryResult inference_query
\* returns; `generated` is what generate_inferred_response returned or raised
inference_query(format, is_tag_query, replacements, generated) ==
  LET handled == IF IsArray(format) THEN array_handling(format, is_tag_query, generated.v)
                 ELSE generated.v
  IN IF generated.raises \/ resolve_inference(handled, replacements).raises
     THEN FallbackValue(InferenceFallback(format, is_tag_query))
     ELSE resolve_inference(handled, replacements).v

\* query.py:96-105: the fallback of run_query's inference branch
run_query_fallback(format) ==
  IF format = "int" THEN PyInt(0)
  ELSE IF format = "bool" THEN PyBool(FALSE)
  ELSE IF format \in {"int_array", "str_array"} THEN PyList(<<>>)
  ELSE PyStr(<<"E", "r", "r", "o", "r", " ", "p", "r", "o", "c", "e", "s", "s", "i", "n", "g", " ", "q", "u", "e", "r", "y">>)

\* query.py:68-115: the answer of the response run_query returns for a
\* request with the sentinel document id
run_query_inference(format, is_tag_query, replacements, generated) ==
  LET query_response == inference_query(format, is_tag_query, replacements, generated)
      answer == QueryAnswer(query_response, format)
  IN IF answer.raises THEN QueryAnswer(run_query_fallback(format), format).v
     ELSE answer.v

(***************************************************************************)
(* process_query (query_service.py:183-267), after the generation step.    *)
(***************************************************************************)
\* query_service.py:206-267: the answer and the resolved_entities of the
\* QueryResult; `replacements` is the dict built from the options of the
\* resolve_entity rules (empty without such a rule), answer_value is
\* answer["answer"] of generate_response
process_query(format, replacements, answer_value) ==
  LET resolving == format \in {"str", "str_array"} /\ Truthy(answer_value) /\ replacements # <<>>
      replaced == replace_keywords(answer_value, replacements)
      transformations == IF resolving THEN replaced.transformation
                         ELSE Transformation(PyStr(<<>>), PyStr(<<>>))
  IN [answer |-> IF resolving THEN replaced.text ELSE answer_value,
      resolved_entities |->
        IF Truthy(transformations.original) \/ Truthy(transformations.resolved)
        THEN <<transformations>> ELSE <<>>]

\* query_service.py:254: the bound of the slice result_chunks[:10]
CHUNK_LIMIT == 10

\* largest number of chunks a search returns
MaxRetrieved == 11

\* the answer "not found" of the generation step
NotFound == PyStr(<<"n", "o", "t", " ", "f", "o", "u", "n", "d">>)

\* query_service.py:36-45: the query types process_query is called with
QueryTypes == {"decomposition", "hybrid", "simple_vector"}

\* query_service.py:196-197: the chunks of the search response, named by
\* their rank
Retrieved == { [k \in 1..n |-> k] : n \in {0, 3, MaxRetrieved - 1, MaxRetrieved} }

\* a bug: the whole list is returned
PySlice_Whole(s, n) == s

\* s[:n] for n >= 0
PySlice(s, n) == SubSeq(s, 1, Min(n, Len(s)))

\* query_service.py:211-224: result_chunks before the slice
result_chunks(qtype, format, answer_value, chunks) ==
  IF format \in {"str", "str_array"}
  THEN IF answer_value \in {NotFound, PyNone} /\ qtype # "decomposition"
       THEN <<>> ELSE chunks
  ELSE <<>>

(***************************************************************************)
(* The calls of the answer path.                                           *)
(***************************************************************************)
\* what a generation step can hand back
RawAnswers ==
  { PyNone,
    PyInt(3),
    PyInt(0),
    PyBool(TRUE),
    PyStr(<<"3", " ", "i", "t", "e", "m", "s">>),
    PyStr(<<"1", "2">>),
    PyStr(<<"Y", "e", "s">>),
    PyStr(<<"T", "R", "U", "E">>),
    PyStr(<<"n", "o">>),
    PyStr(<<"m", "a", "y", "b", "e">>),
    PyStr(<<"[", "'", "a", "'", ",", " ", "'", "b", "'", "]">>),
    PyStr(<<"[", "1", ",", " ", "2", "]">>),
    PyStr(<<"[", "a", ",", " ", "b", "]">>),
    PyStr(<<"[", "1", ",", " ", "x", "]">>),
    PyStr(<<"[", "]">>),
    PyStr(<<"o", "o", "p", "s">>),
    PyStr(<<"a">>),
    PyStr(<<>>),
    PyList(<<PyStr(<<"a">>), PyStr(<<"b">>)>>),
    PyList(<<PyInt(1), PyInt(2)>>),
    PyList(<<>>),
    PyDict(PyStr(<<"3", " ", "i", "t", "e", "m", "s">>)),
    PyList(<<PyInt(1), PyStr(<<"a">>)>>) }

\* the dicts built from the options of resolve_entity rules
Replacements ==
  { <<>>,
    <<<<<<"a">>, <<"b">>>>>>,
    <<<<<<"a">>, <<"b">>>>, <<<<"b">>, <<"c">>>>>>,
    <<<<<<"a">>, <<"b">>>>, <<<<"b">>, <<"a">>>>>>,
    <<<<<<"a">>, <<"a", " ", "b">>>>>> }

\* str and list-of-str answers
Texts ==
  { PyStr(<<"a">>),
    PyStr(<<"b">>),
    PyStr(<<"c">>),
    PyStr(<<"a", " ", "b">>),
    PyStr(<<"a", "b">>),
    PyStr(<<"a", "-", "b">>),
    PyStr(<<>>),
    PyList(<<PyStr(<<"a">>), PyStr(<<"c">>)>>),
    PyList(<<PyStr(<<"c">>)>>),
    PyList(<<>>) }

\* the dicts of the inference requests of the model
InferenceReplacements == { m \in Replacements : Len(m) <= 1 }

\* a QueryAnswer is constructed (query.py:84-90, 145-151, 371-377)
Construct(answer, type) ==
  /\ evaluated' = [fn |-> "QueryAnswer", answer |-> answer, type |-> type,
                   result |-> QueryAnswer(answer, type)]
  /\ UNCHANGED <<qvars, evars, cvars, tvars, pvars>>

\* run_query awaits inference_query and builds its response
Infer(format, is_tag_query, replacements, generated) ==
  /\ evaluated' = [fn |-> "inference_query", format |-> format,
                   is_tag_query |-> is_tag_query, replacements |-> replacements,
                   generated |-> generated,
                   result |-> inference_query(format, is_tag_query, replacements, generated),
                   response |-> run_query_inference(format, is_tag_query, replacements, generated)]
  /\ UNCHANGED <<qvars, evars, cvars, tvars, pvars>>

\* replace_keywords is applied to an answer, and again to what it returned
Resolve(text, replacements) ==
  /\ LET once == replace_keywords(text, replacements).text
     IN evaluated' = [fn |-> "replace_keywords", text |-> text, replacements |-> replacements,
                      once |-> once,
                      twice |-> replace_keywords(once, replacements).text]
  /\ UNCHANGED <<qvars, evars, cvars, tvars, pvars>>

\* process_query builds its QueryResult from the chunks of the search and
\* the generated answer
Process(qtype, format, replacements, answer_value, chunks) ==
  /\ evaluated' = [fn |-> "process_query", query_type |-> qtype, format |-> format,
                   replacements |-> replacements, answer_value |-> answer_value,
                   chunks |-> chunks,
                   result |-> [ answer |-> process_query(format, replacements, answer_value).answer,
                                chunks |-> PySlice(result_chunks(qtype, format, answer_value, chunks),
                                                   CHUNK_LIMIT),
                                resolved_entities |->
                                  process_query(format, replacements, answer_value).resolved_entities ]]
  /\ UNCHANGED <<qvars, evars, cvars, tvars, pvars>>

(***************************************************************************)
(* The split of _process_document (document_service.py:128-174): the units *)
(* are cut into batches, each batch is split by a task of the thread pool, *)
(* the tasks are gathered and their results extended into all_chunks.      *)
(* chunking: pc ("idle", "gathering", "returned"), docs, chunk_tasks (the   *)
(* batch of each task and, once it has finished, its chunks), finished     *)
(* (the tasks in the order in which they finished), all_chunks.            *)
(***************************************************************************)
MaxUnits == 31

\* document_service.py:134-139
batch_size(docs) ==
  IF Len(docs) > 50 THEN 5
  ELSE IF Len(docs) > 20 THEN 10
  ELSE 20

\* range(0, len(docs), batch_size) and docs[i:i+batch_size], lines 145-146
BatchesOf(docs) ==
  LET size == batch_size(docs)
      count == (Len(docs) + size - 1) \div size
  IN [n \in 1..count |-> SubSeq(docs, (n - 1) * size + 1, Min(n * size, Len(docs)))]

\* units of a loaded document, one per page: every page with text, or every
\* third page blank
Units(count, pattern) ==
  [p \in 1..count |->
     LangchainDocument("pypdf", p, IF pattern = "gaps" /\ p % 3 = 0 THEN "blank" ELSE "content", FALSE)]

SplitInputs == { Units(count, pattern) : count \in {1, 21, MaxUnits}, pattern \in {"text", "gaps"} }

\* a bug: the results are taken as the tasks finish
gather_AsCompleted(chunk_tasks, finished) ==
  [n \in DOMAIN finished |-> chunk_tasks[finished[n]].result]

\* `await asyncio.gather(*chunk_tasks)`, line 155: the results in the order
\* of the tasks
gather(chunk_tasks, finished) ==
  [n \in DOMAIN chunk_tasks |-> chunk_tasks[n].result]

\* lines 158-159: all_chunks.extend(batch_chunks) for each result
RECURSIVE extend_all(_)
extend_all(batch_results) ==
  IF batch_results = <<>> THEN <<>>
  ELSE Head(batch_results) \o extend_all(Tail(batch_results))

\* lines 128-152: _load_document returned `docs` (not empty); the batch
\* tasks are handed to the executor
StartSplit(docs) ==
  /\ chunking.pc = "idle"
  /\ chunking' = [pc |-> "gathering", docs |-> docs,
                  chunk_tasks |-> [n \in DOMAIN BatchesOf(docs) |->
                                     [batch |-> BatchesOf(docs)[n], done |-> FALSE, result |-> <<>>]],
                  finished |-> <<>>, all_chunks |-> <<>>]
  /\ UNCHANGED <<qvars, evars, cvars, tvars, avars>>

\* lines 148-151: a thread of the pool has run splitter.split_documents(b)
SplitBatchEnds(n) ==
  /\ chunking.pc = "gathering"
  /\ n \in DOMAIN chunking.chunk_tasks
  /\ ~chunking.chunk_tasks[n].done
  /\ chunking' = [chunking EXCEPT
                    !.chunk_tasks[n].done = TRUE,
                    !.chunk_tasks[n].result = split_documents(chunking.chunk_tasks[n].batch),
                    !.finished = Append(@, n)]
  /\ UNCHANGED <<qvars, evars, cvars, tvars, avars>>

\* lines 155-174: every task has finished; the results are combined and
\* returned, or the placeholder when there is no chunk
SplitGathered ==
  /\ chunking.pc = "gathering"
  /\ \A n \in DOMAIN chunking.chunk_tasks : chunking.chunk_tasks[n].done
  /\ LET all_chunks == extend_all(gather(chunking.chunk_tasks, chunking.finished))
     IN chunking' = [chunking EXCEPT
                       !.pc = "returned",
                       !.all_chunks = IF all_chunks = <<>> THEN << ChunkingFailedPlaceholder >>
                                      ELSE all_chunks]
  /\ UNCHANGED <<qvars, evars, cvars, tvars, avars>>

SplitNext ==
  \/ \E docs \in SplitInputs : StartSplit(docs)
  \/ \E n \in 1..MaxUnits : SplitBatchEnds(n)
  \/ SplitGathered

BatchNext ==
  \/ run_batch_queries
  \/ \E i \in Indices : Acquire(i)
  \/ \E i \in Indices, how \in {"returns", "raises"}, valid \in BOOLEAN : InferenceEnds(i, how, valid)
  \/ \E i \in Indices : InferenceCancelled(i)
  \/ \E i \in Indices, valid \in BOOLEAN : AttemptReturns(i, valid)
  \/ \E i \in Indices : AttemptRaises(i)
  \/ \E i \in Indices : BackoffElapsed(i)
  \/ \E i \in Indices : AttemptCancelled(i)
  \/ GatherDone

CallersNext ==
  \/ \E kind \in {"inference", "retry"} : run_query(kind)
  \/ \E p \in CallerPositions : CallerAcquire(p)
  \/ \E p \in CallerPositions : CallerEnds(p)
  \/ \E p \in CallerPositions : CallerAttemptRaises(p)
  \/ \E p \in CallerPositions : CallerBackoffElapsed(p)

vars == <<qvars, evars, svars>>

RECURSIVE Seqs(_, _)
Seqs(S, n) == IF n = 0 THEN {<<>>}
              ELSE { s \o <<x>> : s \in Seqs(S, n - 1), x \in S }

Batches == { [i \in 1..BatchLen |-> QueryRequestSchema(s[i], i)] : s \in Seqs(RequestShapes, BatchLen) }

\* no upload is in progress, the unstructured package is installed
ExtractIdle == ExtractInit /\ UNSTRUCTURED_AVAILABLE = TRUE /\ ServicesIdle

InitBatch == ExtractIdle /\ \E reqs \in Batches : QueryInit(reqs)

SpecBatch == InitBatch /\ [][BatchNext]_vars

\* the batch running beside the run_query calls: an inference request and a
\* simple-vector request
LimiterBatch ==
  << QueryRequestSchema([document_id |-> SENTINEL, type |-> "int_array", rules |-> FALSE, tag |-> FALSE], 1),
     QueryRequestSchema([document_id |-> "doc", type |-> "str", rules |-> FALSE, tag |-> FALSE], 2) >>

InitLimiter == ExtractIdle /\ QueryInit(LimiterBatch)

SpecLimiter == InitLimiter /\ [][BatchNext \/ CallersNext]_vars

\* a batch of two simple vector requests, gathered together
CancelBatch ==
  << QueryRequestSchema([document_id |-> "doc", type |-> "str", rules |-> FALSE, tag |-> FALSE], 1),
     QueryRequestSchema([document_id |-> "doc", type |-> "int", rules |-> FALSE, tag |-> FALSE], 2) >>

InitCancel == ExtractIdle /\ QueryInit(CancelBatch)

\* the steps of a batch without inference request, beside run_query calls
CancelNext ==
  \/ run_batch_queries
  \/ \E i \in Indices : Acquire(i)
  \/ \E i \in Indices, valid \in BOOLEAN : AttemptReturns(i, valid)
  \/ \E i \in Indices : AttemptRaises(i)
  \/ \E i \in Indices : BackoffElapsed(i)
  \/ \E i \in Indices : AttemptCancelled(i)
  \/ GatherDone
  \/ CallersNext

SpecCancel == InitCancel /\ [][CancelNext]_vars

\* no query is in progress
QueryIdle == QueryInit(<<>>)

InitExtract == QueryIdle /\ ServicesIdle /\ ExtractInit /\ UNSTRUCTURED_AVAILABLE \in BOOLEAN

SpecExtract == InitExtract /\ [][ExtractNext]_vars

(***************************************************************************)
(* Batch upload.  document.py:160-186: one process_file task per file,      *)
(* gathered together, each awaiting upload_document of the one              *)
(* DocumentService of the application (main.py:177), and so of its one      *)
(* settings object.                                                         *)
(***************************************************************************)
NumGathered == 2

GatheredFiles == {TextPdf, ScannedPdf, TextFile}

InitGathered ==
  /\ QueryIdle
  /\ ServicesIdle
  /\ settings_loader = "pypdf"
  /\ uploads = [u \in 1..NumGathered |-> NewUpload]
  /\ probe = None
  /\ detected = None
  /\ UNSTRUCTURED_AVAILABLE \in BOOLEAN

GatheredNext ==
  \/ \E u \in DOMAIN uploads, file \in GatheredFiles : upload_document(u, file)
  \/ \E u \in DOMAIN uploads, inner \in Inner, inner2 \in Inner : BackendFinishes(u, inner, inner2)
  \/ \E u \in DOMAIN uploads : SplitDone(u)

SpecGathered == InitGathered /\ [][GatheredNext]_vars

InitSplit == QueryIdle /\ ExtractIdle

SpecSplit == InitSplit /\ [][SplitNext]_vars

(***************************************************************************)
(* A query and its model calls.  One process_query_with_retry coroutine,   *)
(* gathered by run_batch_queries; each attempt's process_query awaits one  *)
(* generate_completion call (query_service.py:201-203): attempt a awaits    *)
(* call a + 1.  cancel_task may be called at any time.                     *)
(***************************************************************************)
RetryBatch ==
  << QueryRequestSchema([document_id |-> "doc", type |-> "str", rules |-> FALSE, tag |-> FALSE], 1) >>

\* the generate_completion call awaited by the current attempt of coroutine i
AwaitedCall(i) == coro[i].attempt + 1

\* the ids a cancel_task call may name
RetryTaskIds == {"job"} \cup { TaskName(n) : n \in 0..MAX_RETRIES }

InitRetry ==
  /\ QueryInit(RetryBatch)
  /\ ExtractInit
  /\ UNSTRUCTURED_AVAILABLE = TRUE
  /\ CachesIdle(<<>>)
  /\ AnswersIdle
  /\ ChunkingIdle
  /\ client = TRUE
  /\ active_tasks = <<>>
  /\ _next_task_id = 0
  /\ calls = [c \in 1..(MAX_RETRIES + 1) |-> NewCall]
  /\ last_cancel = None

\* query_service.py:201-203: process_query, inside the limiter, awaits
\* generate_response, which awaits generate_completion
ModelCallStarts(i, given) ==
  /\ coro[i].pc = "run"
  /\ generate_completion(AwaitedCall(i), given)

\* query_service.py:136-148: generate_completion returned; process_query
\* returns a QueryResult and the attempt returns it
ProcessQueryReturns(i, valid) ==
  /\ calls[AwaitedCall(i)].pc = "returned"
  /\ AttemptReturns(i, valid)

\* query_service.py:150-157: the search raised before the model was called,
\* or generate_completion raised after its last attempt
ProcessQueryRaises(i) ==
  /\ calls[AwaitedCall(i)].pc \in {"idle", "raised"}
  /\ AttemptRaises(i)

\* the CancelledError that left generate_completion leaves process_query
ProcessQueryCancelled(i) ==
  /\ calls[AwaitedCall(i)].pc = "cancelled"
  /\ AttemptCancelled(i)

RetryNext ==
  \/ run_batch_queries
  \/ \E i \in Indices : Acquire(i)
  \/ \E i \in Indices, given \in {NoId, "job"} : ModelCallStarts(i, given)
  \/ \E c \in DOMAIN calls, outcome \in {"response", "none", "error"} : ApiCallEnds(c, outcome)
  \/ \E c \in DOMAIN calls : WaitForEnds(c)
  \/ \E c \in DOMAIN calls : WaitForTimesOut(c)
  \/ \E c \in DOMAIN calls : SleepEnds(c)
  \/ \E task_id \in RetryTaskIds : cancel_task(task_id)
  \/ \E i \in Indices, valid \in BOOLEAN : ProcessQueryReturns(i, valid)
  \/ \E i \in Indices : ProcessQueryRaises(i)
  \/ \E i \in Indices : ProcessQueryCancelled(i)
  \/ \E i \in Indices : BackoffElapsed(i)
  \/ GatherDone

SpecRetry == InitRetry /\ [][RetryNext]_vars

(***************************************************************************)
(* Progress.  The calls run on one event loop: a coroutine that can step   *)
(* is eventually stepped (weak fairness on the steps that await nothing    *)
(* upstream and on the end of asyncio.sleep), an upstream call eventually  *)
(* returns or raises (weak fairness on the end of each attempt, with no    *)
(* cancellation delivered), and asyncio.Semaphore wakes its waiters in the *)
(* order they arrived, so a waiter is not overtaken for ever by later      *)
(* arrivals (strong fairness on the acquisition of each batch coroutine).  *)
(* New run_query calls may keep arriving; nothing obliges them to.  The     *)
(* run_query calls here are inference calls: they take a permit for one    *)
(* upstream call, as each attempt of a batch coroutine does.               *)
(***************************************************************************)
\* query_service.py:150-152, 428-431: the awaited upstream call of the
\* attempt returns or raises
UpstreamEnds(i) ==
  \/ \E how \in {"returns", "raises"}, valid \in BOOLEAN : InferenceEnds(i, how, valid)
  \/ \E valid \in BOOLEAN : AttemptReturns(i, valid)
  \/ AttemptRaises(i)

Arrival == run_query("inference")

InferenceCallers == { p \in CallerPositions : p.kind = "inference" }

LiveNext ==
  \/ run_batch_queries
  \/ \E i \in Indices : Acquire(i)
  \/ \E i \in Indices : UpstreamEnds(i)
  \/ \E i \in Indices : BackoffElapsed(i)
  \/ GatherDone
  \/ Arrival
  \/ \E p \in InferenceCallers : CallerAcquire(p)
  \/ \E p \in InferenceCallers : CallerEnds(p)

Fairness ==
  /\ WF_vars(run_batch_queries)
  /\ WF_vars(GatherDone)
  /\ \A i \in DOMAIN LimiterBatch :
       /\ SF_vars(Acquire(i))
       /\ WF_vars(UpstreamEnds(i))
       /\ WF_vars(BackoffElapsed(i))
  /\ \A p \in InferenceCallers :
       /\ WF_vars(CallerAcquire(p))
       /\ WF_vars(CallerEnds(p))

InitLive == ExtractIdle /\ QueryInit(LimiterBatch)

SpecLive == InitLive /\ [][LiveNext]_vars /\ Fairness

InitCache ==
  /\ QueryIdle
  /\ ExtractInit
  /\ UNSTRUCTURED_AVAILABLE \in BOOLEAN
  /\ TasksIdle(TRUE)
  /\ AnswersIdle
  /\ ChunkingIdle
  /\ \E cache \in {<<>>, WarmCache} : CachesIdle(cache)

SpecCache == InitCache /\ [][CacheNext]_vars

\* PDFLoader.load alone, on an empty PDF_CACHE: a.pdf and c.pdf agree in
\* their first 8192 bytes and differ afterwards, d.pdf differs from both in
\* its first 8192 bytes
PrefixFiles ==
  { StoredFile("a.pdf", 1, 1), StoredFile("c.pdf", 1, 2), StoredFile("d.pdf", 2, 1) }

PrefixNext ==
  \/ \E l \in Loads, file \in PrefixFiles : load(l, "pypdf", file)
  \/ \E l \in Loads, inner \in Inner, inner2 \in Inner : ExtractionEnds(l, inner, inner2)
  \/ Tick

InitPrefix ==
  /\ QueryIdle
  /\ ExtractInit
  /\ UNSTRUCTURED_AVAILABLE \in BOOLEAN
  /\ TasksIdle(TRUE)
  /\ AnswersIdle
  /\ ChunkingIdle
  /\ CachesIdle(<<>>)

SpecPrefix == InitPrefix /\ [][PrefixNext]_vars

InitTasks ==
  /\ QueryIdle
  /\ ExtractInit
  /\ UNSTRUCTURED_AVAILABLE = TRUE
  /\ CachesIdle(<<>>)
  /\ AnswersIdle
  /\ ChunkingIdle
  /\ \E configured \in BOOLEAN : TasksIdle(configured)

SpecTasks == InitTasks /\ [][TasksNext]_vars

AnswerNext ==
  \/ \E request \in RoutedRequests : Route(request)
  \/ \E answer \in RawAnswers, type \in Formats : Construct(answer, type)
  \/ \E format \in Formats, is_tag_query \in BOOLEAN, replacements \in InferenceReplacements,
        generated \in {Throw("Exception")} \cup { Ok(answer) : answer \in RawAnswers } :
          Infer(format, is_tag_query, replacements, generated)
  \/ \E text \in Texts, replacements \in Replacements : Resolve(text, replacements)
  \/ \E format \in Formats, replacements \in Replacements, answer_value \in Texts \cup {PyNone} :
          Process("hybrid", format, replacements, answer_value, [k \in 1..3 |-> k])

InitAnswer == QueryIdle /\ ExtractIdle

SpecAnswer == InitAnswer /\ [][AnswerNext]_vars

\* process_query alone, over the query types, the declared types, the
\* answers that decide about the chunks and the sizes of the search result
ChunkAnswers ==
  { PyNone, NotFound, PyStr(<<>>), PyStr(<<"a">>), PyList(<<>>), PyList(<<PyStr(<<"c">>)>>) }

ChunksNext ==
  \E qtype \in QueryTypes, format \in Formats, replacements \in {<<>>, <<<<<<"a">>, <<"b">>>>>>},
     answer_value \in ChunkAnswers, chunks \in Retrieved :
       Process(qtype, format, replacements, answer_value, chunks)

InitChunks == QueryIdle /\ ExtractIdle

SpecChunks == InitChunks /\ [][ChunksNext]_vars

PageLists == UNION { Seqs(PageKinds, n) : n \in 0..MaxPages }

ProbeFiles ==
  { File(".pdf", TRUE, TRUE, LARGE_FILE_SIZE, pages, "/Font") : pages \in PageLists }
    \cup
  { File(".pdf", exists, exists /\ opens, size, << Page(SIGNIFICANT_TEXT + 1, 0) >>, markers) :
      exists \in BOOLEAN, opens \in BOOLEAN,
      size \in {LARGE_FILE_SIZE - 1, LARGE_FILE_SIZE, LARGE_FILE_SIZE + 1},
      markers \in {"/Font", "/Image", "none"} }

\* DocumentService imports fitz through the loader factory, PDFLoader guards
\* the import (pypdf_service.py:27-33)
Probes == { [file |-> f, fitz |-> fitz] : f \in ProbeFiles, fitz \in BOOLEAN }

InitDetect ==
  /\ QueryIdle
  /\ ServicesIdle
  /\ settings_loader = "pypdf"
  /\ UNSTRUCTURED_AVAILABLE = TRUE
  /\ uploads = [u \in Uploads |-> NewUpload]
  /\ probe \in Probes
  /\ detected = None

SpecDetect == InitDetect /\ [][DetectPdfType]_vars

(***************************************************************************)
(* Properties of the query engine.                                         *)
(***************************************************************************)
RunPositions == { p \in CallerPositions : p.pc = "run" }
WaitingPositions == { p \in CallerPositions : p.pc = "acquire" }

\* the query tasks inside the limiter: process_query called from
\* process_query_with_retry, generate_inferred_response called from inference_query
InFlight ==
  Cardinality({ i \in Indices : coro[i].pc = "run" }) + Total(callers, RunPositions)

Waiting ==
  Cardinality({ i \in Indices : coro[i].pc = "acquire" }) + Total(callers, WaitingPositions)

\* C1: at every instant at most MAX_CONCURRENT_QUERIES query tasks execute
\* inside the limiter, whatever run_query and run_batch_queries calls run
\* concurrently.
C1_AtMostLimitInFlight == InFlight <= MAX_CONCURRENT_QUERIES

\* the limiter is saturated by a batch coroutine and run_query calls while
\* another task waits for a permit
C1_Witness ==
  /\ InFlight = MAX_CONCURRENT_QUERIES
  /\ Waiting > 0
  /\ \E i \in Indices : coro[i].pc = "run"
  /\ Total(callers, RunPositions) > 0

\* C2: when run_batch_queries returns, it returns one response per request
\* and response i carries the document_id and the prompt id of request i.
C2_ResponsesInRequestOrder ==
  batch_pc = "returned" =>
    /\ Len(results) = Len(requests)
    /\ \A i \in Indices :
         /\ results[i] # None
         /\ results[i].document_id = requests[i].document_id
         /\ results[i].prompt_id = requests[i].prompt.id

\* a returned batch whose second request (inference) was processed before
\* its first (hybrid), and whose first request failed
C2_Witness ==
  /\ batch_pc = "returned"
  /\ Category(requests[1]) = "hybrid"
  /\ Category(requests[2]) = "inference"
  /\ coro[1].raises = MAX_RETRIES + 1
  /\ coro[2].outcome.answer.src = "llm"

IsRetryCoroutine(i) == Category(requests[i]) # "inference"

\* C3: when every one of the retries + 1 attempts of process_query_with_retry
\* has raised, the call has returned (not raised) a QueryResult with empty
\* chunks and the fallback answer of the declared type.
C3_FallbackAfterExhaustedRetries ==
  \A i \in Indices :
    (IsRetryCoroutine(i) /\ coro[i].raises = MAX_RETRIES + 1) =>
      /\ coro[i].pc = "done"
      /\ IsQueryResult(coro[i].outcome)
      /\ coro[i].outcome.chunks = <<>>
      /\ coro[i].outcome.answer.src = "fallback"
      /\ LET type == requests[i].prompt.type
         IN coro[i].outcome.answer.value =
              CASE type = "int" -> "0"
                [] type = "bool" -> "False"
                [] type \in {"int_array", "str_array"} -> "[]"
                [] type = "str" -> "''"

\* a batch with one request of an array type and one of type bool, both
\* exhausted
C3_Witness ==
  /\ \A i \in Indices : IsRetryCoroutine(i) /\ coro[i].raises = MAX_RETRIES + 1
  /\ requests[1].prompt.type = "int_array"
  /\ requests[2].prompt.type = "bool"

\* C4: the permits taken from the limiter are exactly the tasks inside an
\* attempt: a permit is given back on every exit (return, exception,
\* cancellation) and none is held during a backoff sleep, so with no query
\* in flight all permits are available.
C4_PermitsTakenAreTasksInFlight ==
  MAX_CONCURRENT_QUERIES - QUERY_SEMAPHORE = InFlight

\* every permit is back while a batch coroutine and a run_query call sleep
\* between attempts
C4_Witness ==
  /\ QUERY_SEMAPHORE = MAX_CONCURRENT_QUERIES
  /\ \E i \in Indices : coro[i].pc = "sleep"
  /\ Total(callers, { p \in CallerPositions : p.pc = "sleep" }) > 0
  /\ \E i \in Indices : coro[i].pc = "done"

\* C5 (as claimed): in a returned batch every request whose own query result
\* can be turned into a response has the response built from that result,
\* whatever happened to the other requests.
C5_SiblingFailureLeavesResponse ==
  batch_pc = "returned" =>
    \A i \in Indices :
      (IsQueryResult(coro[i].outcome) /\ ~ResponseRaises(coro[i].outcome)) =>
        results[i] = create_response_from_result(requests[i], coro[i].outcome)

\* C6: once process_query has returned to an attempt that follows a raised
\* one, the call is over, its result is what process_query returned, and no
\* further attempt was started.
C6_SuccessfulRetryIsReturned ==
  \A i \in Indices :
    (IsRetryCoroutine(i) /\ coro[i].got # None /\ coro[i].raises >= 1) =>
      /\ coro[i].pc = "done"
      /\ coro[i].outcome = coro[i].got
      /\ coro[i].outcome.answer.src = "llm"
      /\ coro[i].attempt = coro[i].raises

\* the first attempt raised, the second returned
C6_Witness ==
  \E i \in Indices :
    /\ IsRetryCoroutine(i)
    /\ coro[i].raises = 1
    /\ coro[i].got # None
    /\ coro[i].got.answer.attempt = 1

(***************************************************************************)
(* Properties of the extraction pipeline.                                  *)
(***************************************************************************)
\* the load ended with an exception, with nothing, or with units none of
\* which holds extracted text
NoContent(attempt) ==
  \/ attempt.outcome.kind = "raise"
  \/ \A n \in DOMAIN attempt.outcome.value : attempt.outcome.value[n].kind # "content"

\* every backend of the upload's strategy has been tried and none extracted
\* any content
EveryBackendFailed(up) ==
  /\ up.strategy \in {"scanned", "text", "mixed"}
  /\ up.k = Len(Order(up.strategy))
  /\ up.running = {}
  /\ up.attempts # <<>>
  /\ \A n \in DOMAIN up.attempts : NoContent(up.attempts[n])

\* C7 (as claimed): for a PDF, when every backend of the cascade has raised
\* or returned no content, _process_document returns exactly one unit and its
\* metadata carries an error flag.
C7_AllBackendsFailedGivesOneErrorUnit ==
  \A u \in Uploads :
    (uploads[u].pc = "done" /\ EveryBackendFailed(uploads[u])) =>
      /\ Len(uploads[u].result) = 1
      /\ uploads[u].result[1].error

\* the load returned at least one unit with non-whitespace text
AttemptSucceeded(attempt) ==
  /\ attempt.outcome.kind = "return"
  /\ \E n \in DOMAIN attempt.outcome.value : attempt.outcome.value[n].kind # "blank"

InCascade(up) == up.strategy \in {"scanned", "text", "mixed"}

\* C8: in a cascade at most one backend runs at a time; a backend is running
\* or was started only while every earlier one has ended without content
\* (empty or error); and once a backend has returned non-empty content no
\* backend runs any more and the units handed on are that backend's.
C8_CascadeIsSequentialAndHaltsAtFirstSuccess ==
  \A u \in Uploads :
    LET up == uploads[u]
        n == Len(up.attempts)
    IN InCascade(up) =>
         /\ Cardinality(up.running) <= 1
         /\ \A m \in 1..(n - 1) : ~AttemptSucceeded(up.attempts[m])
         /\ up.running # {} => \A m \in 1..n : ~AttemptSucceeded(up.attempts[m])
         /\ (n > 0 /\ AttemptSucceeded(up.attempts[n])) =>
              /\ up.running = {}
              /\ up.pc \in {"splitting", "done"}
              /\ up.docs = up.attempts[n].outcome.value
              /\ \A d \in DOMAIN up.docs : up.docs[d].by = up.attempts[n].loader

\* a mixed PDF whose first two backends ended without content and whose
\* third returned the units handed on to the splitter
C8_Witness ==
  \E u \in Uploads :
    LET up == uploads[u]
    IN /\ up.strategy = "mixed"
       /\ Len(up.attempts) = 3
       /\ ~AttemptSucceeded(up.attempts[1])
       /\ ~AttemptSucceeded(up.attempts[2])
       /\ AttemptSucceeded(up.attempts[3])
       /\ up.pc = "splitting"

IsPrefix(s, t) == Len(s) <= Len(t) /\ \A n \in 1..Len(s) : s[n] = t[n]

\* the loaders of the loads started so far, in starting order
StartedLoaders(up) ==
  [n \in 1..Len(up.attempts) |-> up.attempts[n].loader]
    \o (IF up.running = {} THEN <<>> ELSE << CHOOSE l \in up.running : TRUE >>)

C10_DetectionReturnsAClassification ==
  detected # None =>
    /\ detected.kind = "return"
    /\ detected.value \in {"text", "scanned", "mixed", "unknown"}

\* the pages _detect_pdf_type looks at
FirstPages(file) ==
  SubSeq(file.pages, 1, IF Len(file.pages) > 5 THEN 5 ELSE Len(file.pages))

\* C11: for an existing file of more than 10,000,000 bytes _detect_pdf_type
\* returns scanned whether or not the file can be opened; for a smaller file
\* that PyMuPDF opens it returns, by the pages among the first 5 with more
\* than 100 characters of stripped text and those with at least one image,
\* scanned for (0, >= 1), text for (>= 1, 0), mixed for (>= 1, >= 1) and
\* unknown for (0, 0).
C11_ClassificationByFirstPages ==
  (detected # None /\ probe.file.exists) =>
    IF probe.file.size >= 10000001
    THEN detected = Returned("scanned")
    ELSE (probe.fitz /\ probe.file.opens) =>
      LET first == FirstPages(probe.file)
          some_text == \E n \in DOMAIN first : first[n].text >= 101
          some_image == \E n \in DOMAIN first : first[n].images >= 1
      IN detected = Returned(CASE ~some_text /\ some_image -> "scanned"
                               [] some_text /\ ~some_image -> "text"
                               [] some_text /\ some_image -> "mixed"
                               [] ~some_text /\ ~some_image -> "unknown")

\* a file of six pages whose only page with text and an image is the sixth
\* has been classified unknown
C11_Witness ==
  /\ detected = Returned("unknown")
  /\ probe.fitz
  /\ probe.file.size = LARGE_FILE_SIZE
  /\ Len(probe.file.pages) = 6
  /\ probe.file.pages[6].text > SIGNIFICANT_TEXT
  /\ probe.file.pages[6].images > 0

(***************************************************************************)
(* Properties of the content caches.                                       *)
(***************************************************************************)
\* the time after which an entry of the loader's cache is stale
TTL(loader) ==
  CASE loader = "pypdf" -> CACHE_EXPIRATION
    [] loader = "textract" -> TEXTRACT_CACHE_EXPIRATION
    [] loader = "gpt4o_pdf" -> cache_ttl

Returns == { l \in Loads : loads[l].pc = "done" }

\* C12: in every content cache an entry whose age has reached the TTL is
\* never returned by load: every load that returned cached units found an
\* entry younger than the TTL of its cache.
C12_StaleEntryIsNeverReturned ==
  \A l \in Returns : loads[l].hit => loads[l].age < TTL(loads[l].loader)

\* the entries PDF_CACHE lost in the last _update_cache call
Evicted == Keys(last_put.before) \ Keys(PDF_CACHE)

\* `key` is an entry of `cache` with the smallest timestamp
Oldest(cache, key) ==
  key \in Keys(cache)
    /\ \A n \in DOMAIN cache : Get(cache, key).timestamp <= cache[n].timestamp

Entries == { PDF_CACHE[n] : n \in DOMAIN PDF_CACHE }
             \cup { TEXTRACT_CACHE[n] : n \in DOMAIN TEXTRACT_CACHE }
             \cup { _document_cache[n] : n \in DOMAIN _document_cache }

\* C14: no cache entry ever holds a placeholder or error unit.
C14_NoPlaceholderOrErrorUnitIsCached ==
  \A e \in Entries : \A n \in DOMAIN e.documents :
    e.documents[n].kind \notin {"placeholder", "error"}

SameBytes(f, g) == f.head = g.head /\ f.tail = g.tail

\* the load returned text extracted from the file, and no unit that stands
\* in for it
Successful(outcome) ==
  /\ outcome.kind = "return"
  /\ \E n \in DOMAIN outcome.value : outcome.value[n].kind = "content"
  /\ \A n \in DOMAIN outcome.value : outcome.value[n].kind \notin {"placeholder", "error"}

\* C15: a second load of byte-identical content, made by the same loader
\* within the TTL after a successful first load, returns a unit list equal
\* to the first and invokes no extraction backend.
C15_RepeatedLoadIsServedFromCache ==
  \A first \in Returns, second \in Returns :
    ( /\ first \in loads[second].after
      /\ loads[first].loader = loads[second].loader
      /\ SameBytes(loads[first].file, loads[second].file)
      /\ Successful(loads[first].returned)
      /\ loads[second].started - loads[first].ended < TTL(loads[first].loader) )
    => /\ loads[second].returned = loads[first].returned
       /\ ~loads[second].extracted

(***************************************************************************)
(* Properties of the task registry.                                        *)
(***************************************************************************)
\* C16: cancel_task(id) returns true exactly when id is registered and its
\* task has not completed, and then it calls Task.cancel() on that task;
\* otherwise it returns false; in both cases the registry is unchanged.
C16_CancelReturnsTrueIffRegisteredAndPending ==
  last_cancel # None =>
    /\ last_cancel.returned <=>
         (last_cancel.task_id \in DOMAIN last_cancel.before /\ last_cancel.pending)
    /\ last_cancel.returned =>
         last_cancel.cancelled = last_cancel.before[last_cancel.task_id]
    /\ ~last_cancel.returned => last_cancel.cancelled = Task(0, 0)
    /\ last_cancel.after = last_cancel.before

\* cancel_task returned false for an id that is registered: its API call had
\* completed and generate_completion had not yet resumed
C16_Witness ==
  /\ last_cancel # None
  /\ ~last_cancel.returned
  /\ last_cancel.task_id \in DOMAIN last_cancel.before
  /\ ~last_cancel.pending

\* C17: once cancel_task(id) has returned true for a call, no later
\* cancel_task(id) for that call returns true.
C17_SecondCancelReturnsFalse ==
  \A c \in Calls : calls[c].cancels <= 1

InProgress(c) == calls[c].pc \in {"awaiting", "backoff"}

\* cancel_task(task_id of c) would return true and cancel the task of c
Cancellable(c) ==
  /\ calls[c].task_id \in DOMAIN active_tasks
  /\ active_tasks[calls[c].task_id].call = c
  /\ cancel_task_returns(active_tasks, calls, calls[c].task_id)

\* C18: at every point of a generate_completion call, from its start until
\* it returns or raises, the backoff wait included, cancel_task(id) returns
\* true and cancels the call.  (Stated for a call that shares its task id
\* with no other call and whose current API call has not completed.)
C18_CancellableThroughoutTheCall ==
  \A c \in Calls :
    ( /\ InProgress(c)
      /\ ~(calls[c].pc = "awaiting" /\ calls[c].task = "done")
      /\ \A k \in Calls \ {c} : calls[k].task_id # calls[c].task_id )
    => Cancellable(c)

Finished(c) == calls[c].pc \in {"returned", "raised", "cancelled"}

\* C19: when generate_completion has returned or raised, active_tasks holds
\* no task of that call, and its task id is not in active_tasks (unless
\* another call was given the same id).
C19_FinishedCallIsNotRegistered ==
  \A c \in Calls :
    Finished(c) =>
      /\ \A id \in DOMAIN active_tasks : active_tasks[id].call # c
      /\ (\A k \in Calls \ {c} : calls[k].task_id # calls[c].task_id) =>
           calls[c].task_id \notin DOMAIN active_tasks

\* one call has raised after its last attempt, another has been cancelled,
\* and both had been registered
C19_Witness ==
  \E c, k \in Calls :
    /\ calls[c].pc = "raised" /\ calls[c].attempt = OPENAI_MAX_RETRIES + 1
    /\ calls[k].pc = "cancelled" /\ calls[k].attempt >= 1

\* a coroutine of the batch has ended with the CancelledError of its model call
IsCancelled(c) == c.pc = "done" /\ c.outcome = CancelledError

\* what a gathered coroutine returns is settled by its own request and its
\* own attempts: what process_query returned to it, or the fallback of its
\* declared type once its own attempts are exhausted
OwnOutcome(i) ==
  \/ coro[i].got # None /\ coro[i].outcome = ReturnedFromAttempt(coro[i].got, requests[i])
  \/ /\ coro[i].got = None /\ coro[i].raises = MAX_RETRIES + 1
     /\ coro[i].outcome = FallbackResult(requests[i].prompt.type)

\* the step that cancels the model call of coroutine i touches no other
\* coroutine and no run_query call, and gives one permit back
CancellationIsLocal ==
  \A i \in Indices :
    (~IsCancelled(coro[i]) /\ IsCancelled(coro'[i])) =>
      /\ \A j \in Indices \ {i} : coro'[j] = coro[j]
      /\ callers' = callers
      /\ QUERY_SEMAPHORE' = QUERY_SEMAPHORE + 1

\* C20: cancelling the model call of one in-flight query changes no other
\* query of the batch and no run_query call, every gathered query that ends
\* without being cancelled itself ends with the result of its own attempts,
\* and the permit of the cancelled query goes back to the limiter.
C20_CancellationLeavesSiblingsAndLimiter ==
  /\ [](\A i \in Indices :
          (IsRetryCoroutine(i) /\ coro[i].pc = "done" /\ ~IsCancelled(coro[i])) => OwnOutcome(i))
  /\ [][CancellationIsLocal]_vars
  /\ [](MAX_CONCURRENT_QUERIES - QUERY_SEMAPHORE = InFlight)

\* one gathered query was cancelled, its sibling of the same group went on
\* through a retry to the answer of process_query, and the only permit taken
\* is the one of a run_query call still in flight
C20_Witness ==
  /\ batch_pc = "simple"
  /\ \E i, j \in Indices :
       /\ i # j /\ {i, j} \subseteq Group(Params("simple"), pq_i)
       /\ IsCancelled(coro[i])
       /\ coro[j].pc = "done" /\ coro[j].raises >= 1
       /\ IsQueryResult(coro[j].outcome) /\ coro[j].outcome = coro[j].got
  /\ Total(callers, RunPositions) = 1
  /\ QUERY_SEMAPHORE = MAX_CONCURRENT_QUERIES - 1

(***************************************************************************)
(* Properties of the answer path.                                          *)
(***************************************************************************)
Routed == evaluated.fn = "run_query"

\* C21: run_query awaits inference_query exactly for the all-zero document
\* id; otherwise hybrid_query when the rules are non-empty or the declared
\* type is bool, and simple_vector_query in every other case;
\* run_batch_queries puts the request in the same class.
C21_RoutedBySentinelRulesAndType ==
  Routed =>
    LET request == evaluated.request
    IN /\ evaluated.awaited = "inference_query" <=> request.document_id = SENTINEL
       /\ request.document_id # SENTINEL =>
            /\ evaluated.awaited = "hybrid_query" <=>
                 (request.prompt.rules \/ request.prompt.type = "bool")
            /\ evaluated.awaited = "simple_vector_query" <=>
                 (~request.prompt.rules /\ request.prompt.type # "bool")
       /\ evaluated.batch = evaluated.awaited

\* a bool request without rules, on a document, went to hybrid_query
C21_Witness ==
  /\ Routed
  /\ evaluated.request.document_id = "doc"
  /\ evaluated.request.prompt.type = "bool" /\ ~evaluated.request.prompt.rules
  /\ evaluated.awaited = "hybrid_query" /\ evaluated.batch = "hybrid_query"

\* C22 (as claimed): a request that its caller tags as decomposition is
\* handed to decomposition_query, whatever its rules and declared type.
C22_TaggedDecompositionIsDecomposed ==
  (Routed /\ evaluated.request.query_type \in {"decomposition", "decomposed"}) =>
    evaluated.awaited = "decomposition_query"

Inferred == evaluated.fn = "inference_query"
Constructed == evaluated.fn = "QueryAnswer"
Resolved == evaluated.fn = "replace_keywords"
Processed == evaluated.fn = "process_query"

\* the fallback the claims name for a declared type
TypedFallback(format) ==
  IF format = "int" THEN PyInt(0)
  ELSE IF format = "bool" THEN PyBool(FALSE)
  ELSE IF format \in {"int_array", "str_array"} THEN PyList(<<>>)
  ELSE PyStr(<<>>)

\* C23 (as claimed): when the generation of an inference query raises, the
\* answer of the response is the fallback of the declared type: 0, false,
\* the empty list for both array types, the empty string.
C23_FailedInferenceAnswersTypedFallback ==
  (Inferred /\ evaluated.generated.raises) =>
    evaluated.response = TypedFallback(evaluated.format)

IsScalar(v) == v.t \in {"int", "bool", "str"}

\* C24 (as claimed): a QueryAnswer of declared type int holds an int answer
\* unchanged, the parsed integer of another scalar that parses and 0
\* otherwise; of declared type bool it holds a bool unchanged, true for
\* true/yes/1 and false for anything else; constructing it does not raise.
C24_IntAndBoolAnswersAreCoerced ==
  (Constructed /\ IsScalar(evaluated.answer)) =>
    /\ ~evaluated.result.raises
    /\ evaluated.type = "int" =>
         evaluated.result.v =
           IF IsInt(evaluated.answer) THEN evaluated.answer
           ELSE IF int(evaluated.answer).raises THEN PyInt(0)
           ELSE PyInt(int(evaluated.answer).v)
    /\ evaluated.type = "bool" =>
         evaluated.result.v =
           IF evaluated.answer.t = "bool" THEN evaluated.answer
           ELSE PyBool(evaluated.answer.t = "str"
                       /\ lower(evaluated.answer.v) \in {<<"t", "r", "u", "e">>, <<"y", "e", "s">>, <<"1">>})

\* a str that reads as a list display
IsListLiteral(v) ==
  v.t = "str" /\ ~literal_eval(v.v).raises /\ literal_eval(v.v).v.t = "list"

\* a scalar of the element type of the array format that is no list display
IsBareScalar(format, v) ==
  IF format = "int_array" THEN v.t = "int"
  ELSE v.t = "str" /\ v.v # <<>> /\ \A k \in DOMAIN v.v : v.v[k] \notin {"[", "]"}

\* the list the claim names for a raw answer of an array type
ClaimedList(format, v) ==
  IF IsListLiteral(v) THEN literal_eval(v.v).v ELSE PyList(<<v>>)

\* C25 (as claimed): for an array type, on the inference path and on the
\* vector paths alike, a raw str answer that is a list display becomes the
\* list of its elements and a bare scalar becomes a one-element list.
C25_ListLiteralsAndScalarsBecomeLists ==
  /\ (Inferred /\ IsArray(evaluated.format) /\ ~evaluated.generated.raises
        /\ evaluated.replacements = <<>>
        /\ (IsListLiteral(evaluated.generated.v)
              \/ IsBareScalar(evaluated.format, evaluated.generated.v))) =>
       evaluated.result = ClaimedList(evaluated.format, evaluated.generated.v)
  /\ (Processed /\ IsArray(evaluated.format) /\ evaluated.replacements = <<>>
        /\ (IsListLiteral(evaluated.answer_value)
              \/ IsBareScalar(evaluated.format, evaluated.answer_value))) =>
       evaluated.result.answer = ClaimedList(evaluated.format, evaluated.answer_value)

\* C26 (as claimed): for an array type a raw str answer that is no list
\* display and has no brackets for the manual split gives the empty list.
C26_UnparsableArrayAnswerGivesEmptyList ==
  (Inferred /\ IsArray(evaluated.format) /\ ~evaluated.generated.raises
     /\ evaluated.replacements = <<>>
     /\ evaluated.generated.v.t = "str"
     /\ literal_eval(evaluated.generated.v.v).raises
     /\ \A k \in DOMAIN evaluated.generated.v.v : evaluated.generated.v.v[k] \notin {"[", "]"}) =>
    evaluated.result = PyList(<<>>)

\* C27 (as claimed): a QueryAnswer of declared type str holds a str for
\* every scalar and for None: the scalar stringified, and for None an
\* explanatory default.
C27_StrAnswerIsAlwaysAString ==
  (Constructed /\ evaluated.type = "str"
     /\ (IsScalar(evaluated.answer) \/ evaluated.answer = PyNone)) =>
    /\ ~evaluated.result.raises
    /\ evaluated.result.v.t = "str"
    /\ IsScalar(evaluated.answer) => evaluated.result.v = PyStr(str(evaluated.answer))

\* C28 (as claimed): replace_keywords applied to its own output, with the
\* same replacements, gives that output again.
C28_ReplaceKeywordsIsIdempotent ==
  Resolved => evaluated.twice = evaluated.once

\* C29 (as claimed): the QueryResult of process_query carries resolved
\* entities exactly when the declared type is str or str_array and the
\* replacement changed the answer.
C29_ResolvedEntitiesOnlyWhenChanged ==
  Processed =>
    (evaluated.result.resolved_entities # <<>>
       <=> (evaluated.format \in {"str", "str_array"}
            /\ evaluated.result.answer # evaluated.answer_value))

\* core/config.py:95: the loader type of the settings at startup
ConfiguredLoader == "pypdf"

\* C30 (as claimed): whatever the other uploads gathered with it are doing,
\* an upload of a non-PDF file creates one loader, of the loader type the
\* settings had at startup, and is loaded by that loader only.
C30_NonPdfUsesConfiguredLoaderOnly ==
  \A u \in DOMAIN uploads :
    (uploads[u].pc # "idle" /\ uploads[u].file.ext # ".pdf") =>
      /\ uploads[u].tried = << ConfiguredLoader >>
      /\ uploads[u].running \subseteq {ConfiguredLoader}
      /\ \A n \in DOMAIN uploads[u].attempts : uploads[u].attempts[n].loader = ConfiguredLoader

\* C31: whenever _process_document returns, it returns at least one chunk:
\* the one placeholder chunk with an error key when _load_document returned
\* no unit, the other placeholder chunk with an error key when the units
\* split into no chunk, and the chunks of the split otherwise.
C31_ReturnsAtLeastOneChunk ==
  \A u \in Uploads :
    uploads[u].pc = "done" =>
      LET up == uploads[u]
      IN /\ Len(up.result) >= 1
         /\ up.docs = <<>> => up.result = << NoContentPlaceholder >>
         /\ (up.docs # <<>> /\ split_documents(up.docs) = <<>>) =>
              up.result = << ChunkingFailedPlaceholder >>
         /\ (up.docs # <<>> /\ split_documents(up.docs) # <<>>) =>
              up.result = split_documents(up.docs)
         /\ NoContentPlaceholder.error /\ ChunkingFailedPlaceholder.error

\* a text file whose loader returned only whitespace units: the split gave
\* no chunk and the upload returned the placeholder
C31_Witness ==
  \E u \in Uploads :
    /\ uploads[u].pc = "done"
    /\ uploads[u].docs # <<>>
    /\ split_documents(uploads[u].docs) = <<>>
    /\ uploads[u].result = << ChunkingFailedPlaceholder >>

\* the chunks come in the order of their units, and those of one unit in
\* the order of the split
OrderedByUnit(chunks) ==
  \A a, b \in DOMAIN chunks :
    a < b => \/ chunks[a].page < chunks[b].page
             \/ chunks[a].page = chunks[b].page /\ chunks[a].part < chunks[b].part

\* C32: the list _process_document returns holds the chunks in the order of
\* the units they come from, whichever order the split tasks finished in:
\* it is the split of the whole unit list.
C32_ChunksFollowUnitOrder ==
  chunking.pc = "returned" =>
    /\ OrderedByUnit(chunking.all_chunks)
    /\ chunking.all_chunks = split_documents(chunking.docs)

\* a split of several batches whose last task finished first
C32_Witness ==
  /\ chunking.pc = "returned"
  /\ Len(chunking.chunk_tasks) >= 3
  /\ chunking.finished[1] = Len(chunking.chunk_tasks)
  /\ Len(chunking.all_chunks) > Len(chunking.chunk_tasks)

Started(c) == c.pc # "created"

\* C33: within one run_batch_queries call, when the coroutine of a hybrid
\* request (rules, or declared type bool) has started, the coroutine of
\* every inference and every simple vector request of the batch has ended.
C33_HybridStartsAfterPriorityEnded ==
  \A i, j \in Indices :
    (Category(requests[i]) = "hybrid" /\ Started(coro[i])
       /\ Category(requests[j]) \in {"inference", "simple_vector"}) =>
      coro[j].pc = "done"

\* a hybrid request inside the limiter after a priority request of the
\* same batch has ended
C33_Witness ==
  \E i, j \in Indices :
    /\ Category(requests[i]) = "hybrid" /\ coro[i].pc = "run"
    /\ Category(requests[j]) \in {"inference", "simple_vector"} /\ coro[j].pc = "done"

StrictlyIncreasing(s) == \A n \in 1..(Len(s) - 1) : s[n] < s[n + 1]

\* C34: in process_query_with_retry and in generate_completion the delays
\* of the backoff sleeps are strictly increasing from one failed attempt
\* to the next, a sleep follows every failed attempt but the last, and none
\* follows the last: a call that has used all its attempts has slept one
\* time less than it has failed.
C34_BackoffGrowsAndStopsAtLastAttempt ==
  /\ \A i \in Indices :
       /\ StrictlyIncreasing(coro[i].slept)
       /\ Len(coro[i].slept) = Min(coro[i].raises, MAX_RETRIES)
       /\ coro[i].pc = "sleep" => coro[i].attempt < MAX_RETRIES
  /\ \A c \in DOMAIN calls :
       /\ StrictlyIncreasing(calls[c].slept)
       /\ Len(calls[c].slept) = Min(calls[c].retries, OPENAI_MAX_RETRIES)
       /\ calls[c].pc = "backoff" => calls[c].retries <= OPENAI_MAX_RETRIES
       /\ calls[c].pc = "raised" => calls[c].retries = OPENAI_MAX_RETRIES + 1

\* the query has failed MAX_RETRIES + 1 times and slept MAX_RETRIES times,
\* and the model call of its last attempt has failed OPENAI_MAX_RETRIES + 1
\* times and slept OPENAI_MAX_RETRIES times
C34_Witness ==
  \E i \in Indices :
    /\ coro[i].pc = "done"
    /\ coro[i].raises = MAX_RETRIES + 1
    /\ coro[i].slept = << 1000, 1500 >>
    /\ calls[MAX_RETRIES + 1].pc = "raised"
    /\ calls[MAX_RETRIES + 1].slept = << 1000, 2000, 4000 >>

\* C35 (as claimed): when no upload of the DocumentService is in progress,
\* settings.loader is the loader type configured at startup.
C35_LoaderSettingIsRestored ==
  (\A u \in DOMAIN uploads : uploads[u].pc \in {"idle", "done", "raised"}) =>
    settings_loader = ConfiguredLoader

\* C36 (as claimed): while a generate_completion call awaits the response
\* of its API call, active_tasks maps the task id of the call to the task of
\* that call, whatever other calls do and whatever ids they were given.
C36_AwaitingCallIsRegisteredAsItself ==
  \A c \in DOMAIN calls :
    (calls[c].pc = "awaiting" /\ calls[c].task = "pending") =>
      /\ calls[c].task_id \in DOMAIN active_tasks
      /\ active_tasks[calls[c].task_id] = Task(c, calls[c].attempt)

\* the task of call c has ended with the CancelledError requested through
\* cancel_task, and generate_completion has not resumed yet
CancelDelivered(c) ==
  calls[c].pc = "awaiting" /\ calls[c].task = "done" /\ calls[c].outcome = "cancelled"

\* the next step of a call whose task was cancelled ends the call with
\* CancelledError, with no further attempt and no sleep; the call then stays
\* as it is
CancelledCallEnds ==
  \A c \in DOMAIN calls :
    /\ (CancelDelivered(c) /\ calls'[c] # calls[c]) =>
         /\ calls'[c].pc = "cancelled"
         /\ calls'[c].result = "CancelledError"
         /\ calls'[c].attempt = calls[c].attempt
         /\ calls'[c].retries = calls[c].retries
         /\ calls'[c].slept = calls[c].slept
    /\ calls[c].pc = "cancelled" => calls'[c] = calls[c]

\* the next step of an attempt whose model call ended with CancelledError
\* ends process_query_with_retry with that CancelledError: no further
\* attempt, no sleep, no fallback; the coroutine then stays as it is
CancelledQueryEnds ==
  \A i \in Indices :
    /\ (coro[i].pc = "run" /\ calls[AwaitedCall(i)].pc = "cancelled" /\ coro'[i] # coro[i]) =>
         /\ IsCancelled(coro'[i])
         /\ coro'[i].attempt = coro[i].attempt
         /\ coro'[i].raises = coro[i].raises
         /\ coro'[i].slept = coro[i].slept
    /\ IsCancelled(coro[i]) => coro'[i] = coro[i]

\* C37: a model call cancelled through cancel_task is not retried: the
\* CancelledError ends generate_completion and then the enclosing
\* process_query_with_retry, each without another attempt and without a
\* backoff sleep, and process_query_with_retry ends with the CancelledError
\* and not with a fallback result.
C37_CancelledCallIsNotRetried ==
  [][CancelledCallEnds /\ CancelledQueryEnds]_vars

\* a query cancelled in its second attempt, during the second attempt of
\* the model call of that attempt
C37_Witness ==
  \E i \in Indices :
    /\ IsCancelled(coro[i])
    /\ coro[i].attempt = 1
    /\ calls[AwaitedCall(i)].pc = "cancelled"
    /\ calls[AwaitedCall(i)].cancels >= 1
    /\ calls[AwaitedCall(i)].attempt = 2

CacheHit(l) == loads[l].pc = "done" /\ loads[l].loader = "pypdf" /\ loads[l].hit

\* load k of PDFLoader extracted units and stored them (pypdf_service.py:94-95)
Stored(k) ==
  /\ loads[k].pc = "done" /\ loads[k].loader = "pypdf" /\ loads[k].extracted
  /\ loads[k].returned.kind = "return" /\ loads[k].returned.value # <<>>

\* the entry load l returned was stored by load k: k is the only load that
\* had stored anything when l looked the cache up
PopulatedBy(l, k) ==
  /\ CacheHit(l) /\ k \in loads[l].after /\ Stored(k)
  /\ \A j \in loads[l].after : Stored(j) => j = k

\* C39 as stated: PDFLoader.load returns cached units only for a file whose
\* bytes are identical to those of the file that populated the entry.
C39_CachedUnitsOnlyForIdenticalBytes ==
  \A l \in Loads, k \in Loads :
    PopulatedBy(l, k) => SameBytes(loads[l].file, loads[k].file)

\* C39: PDFLoader.load returns cached units only for a file whose first 8192
\* bytes are identical to those of the file that populated the entry, and
\* then it returns the units that file was extracted to; two files that
\* differ within their first 8192 bytes never share a cache entry.
C39_CachedUnitsOnlyForIdenticalPrefix ==
  \A l \in Loads, k \in Loads :
    PopulatedBy(l, k) =>
      /\ loads[l].file.head = loads[k].file.head
      /\ loads[l].returned = loads[k].returned

\* c.pdf is answered from the entry that a.pdf populated
C39_Witness ==
  \E l \in Loads, k \in Loads :
    /\ PopulatedBy(l, k)
    /\ loads[k].file.path = "a.pdf"
    /\ loads[l].file.path = "c.pdf"
    /\ ~loads[l].extracted

\* C40: for the declared types int, bool and int_array process_query returns
\* an empty chunk list whatever the search retrieved; for str and str_array
\* it returns at most 10 chunks, the first of the retrieved ones in their
\* order: the first min(10, n) of the n retrieved chunks, or none when the
\* answer is "not found" or None and the query is no decomposition query.
C40_ChunksByDeclaredType ==
  Processed =>
    LET returned == evaluated.result.chunks
        unanswered == evaluated.answer_value \in {NotFound, PyNone}
                        /\ evaluated.query_type # "decomposition"
    IN /\ evaluated.format \in {"int", "bool", "int_array"} => returned = <<>>
       /\ evaluated.format \in {"str", "str_array"} =>
            /\ Len(returned) <= 10
            /\ IsPrefix(returned, evaluated.chunks)
            /\ Len(returned) = IF unanswered THEN 0 ELSE Min(10, Len(evaluated.chunks))

\* eleven chunks were retrieved for a str query: the first ten are returned
C40_Witness ==
  /\ Processed
  /\ evaluated.format = "str"
  /\ Len(evaluated.chunks) = MaxRetrieved
  /\ evaluated.result.chunks = [k \in 1..10 |-> k]

====
